---- MODULE Spec2Model ----
(***************************************************************************)
(* Model of the store-backed, typed-prompt revision of server.js           *)
(* (src/server.js lines 1572-3234): the prompt version store endpoints,    *)
(* the analyze-contact orchestration, the reads of the analyses and the    *)
(* opportunities list.                                                     *)
(*                                                                         *)
(* The prompt table is a set of rows; a row keeps the columns the          *)
(* handlers read or write: id, prompt_type, version, is_active, settings.  *)
(* A query result is a set of rows; the `data` of a `.single()` query is   *)
(* the empty set (null) or a singleton, and its `error` is set whenever    *)
(* the selection is not exactly one row (PGRST116, see line 2746).         *)
(* The store answers every prompt query from the table; the upstream       *)
(* services and the analysis insert may fail.                              *)
(*                                                                         *)
(* Spec            prompt requests one at a time, each handler atomic      *)
(* SpecConc        prompt requests interleaved at their awaits             *)
(* SpecConcCreate  the same, POST /api/prompts only                        *)
(* SpecAnalyze     analyze-contact, one request at a time                  *)
(* SpecTimeline    analyze-contact over messages of different timestamps   *)
(* SpecAnalyzeConc two analyze-contact requests interleaved, no failure    *)
(* SpecAnalyses    analyze-contact, reanalyze and the analyses reads       *)
(* SpecAnalyzeLive analyze-contact where every awaited call answers        *)
(* SpecContext     analyze-contact under prompts of either setting         *)
(* SpecResolved    analyze-contact while prompts are created and restored  *)
(* SpecOpportunities  GET /api/opportunities, one request at a time        *)
(* SpecEnrich      GET /api/opportunities, the enrichment in batches       *)
(* SpecHasAnalysis GET /api/opportunities after analyze-contact requests   *)
(* SpecPaging      GET /api/opportunities, the paging loop                 *)
(* SpecPagingLive  the paging loop where every search call answers         *)
(* SpecPromptReads the prompt reads of the store-backed revision and the   *)
(*                 prompt endpoints of the in-memory revision (lines       *)
(*                 3774-4613)                                              *)
(* SpecMemory      create-prompt and analyze-contact of the in-memory      *)
(*                 revision, ids made of the clock                         *)
(* SpecSingle      the prompt endpoints of the single-sequence revision    *)
(*                 (lines 1-1571), one request at a time                   *)
(* SpecConcDelete  a delete of the active prompt interleaved with a        *)
(*                 create or a restore                                     *)
(***************************************************************************)
EXTENDS Integers, Sequences, FiniteSets, TLC

VARIABLES
    prompts,    \* rows of the `prompts` table
    nextId,     \* next id the store hands out on insert
    issued,     \* history: <<type, version>> pairs handed to created prompts
    resp,       \* sequential runs: response of the last prompt request
    pp,         \* interleaved runs: per request task, its position and locals
    analyses,   \* rows of the `analyses` table
    ar,         \* the analyze-contact request: its position, locals and response
    ar2,        \* a second analyze-contact request, suspended at an await
    view,       \* response of the GET /api/analyses request being answered
    opp,        \* the GET /api/opportunities request: its position, locals and response
    promptsStorage, \* in-memory revision: the array of prompts
    analysesStorage, \* in-memory revision: the array of analyses
    memRuns,    \* in-memory revision: the analyze-contact requests at their awaits
    now         \* in-memory revision: Date.now(), of which the ids are made

promptVars == <<prompts, nextId, issued>>
\* the state of the in-memory revision
memAnalysisVars == <<analysesStorage, memRuns>>
memVars == <<promptsStorage, analysesStorage, memRuns, now>>
\* what the prompt endpoints leave alone
nonPromptVars == <<analyses, ar, ar2, view, opp, memVars>>
\* what analyze-contact leaves alone
nonAnalyzeVars == <<prompts, nextId, issued, resp, pp, ar2, view, opp, memVars>>
\* what GET /api/opportunities leaves alone
nonOppVars == <<prompts, nextId, issued, resp, pp, analyses, ar, ar2, view, memVars>>
\* what the GET requests of the store-backed revision leave alone
nonViewVars == <<prompts, nextId, issued, resp, pp, analyses, ar, ar2, opp, memVars>>
\* what the in-memory revision leaves alone
nonMemVars == <<prompts, nextId, issued, resp, pp, analyses, ar, ar2, view, opp>>
vars ==
    <<prompts, nextId, issued, resp, pp, analyses, ar, ar2, view, opp,
      promptsStorage, analysesStorage, memRuns, now>>

----------------------------------------------------------------------------
(* Bounds *)

\* number of prompt rows the store ever creates
MaxPrompts == 4
\* number of prompt request tasks that run interleaved
NumProcs == 2
\* number of prompt rows the interleaved runs ever create
MaxConcPrompts == 3

\* number of prompt rows created in the runs of analyze-contact
MaxAnalyzePrompts == 1
\* number of analysis rows the runs of several requests ever store
MaxAnalyses == 2
\* number of pipelines of the location
MaxPipelines == 2
\* number of opportunities in one answer of the CRM
MaxPage == 1
\* the accumulated opportunities at which the paging loop stops, 1000 in the
\* source, scaled to the pages of the model
MaxAccumulated == 2
\* number of conversations the search returns for a contact
MaxConvs == 2
\* number of messages the conversations of a contact hold together
MaxMsgs == 2

PromptTypes == {"setter", "closer"}
\* values a caller may send as promptType ("other" stands for any invalid one)
RequestedTypes == PromptTypes \cup {"other"}
Ids == 1..MaxPrompts
\* contact ids a caller may send; "" is a missing contactId
ContactIds == {"c1", ""}
\* contacts of the CRM
Contacts == {"c1", "c2"}
\* message types the conversation service returns; "" is a missing type
MsgTypes == {"TYPE_CALL", "TYPE_SMS", "TYPE_WHATSAPP", "TYPE_EMAIL", ""}
\* message timestamps (dateAdded): an earlier and a later one
Dates == {1, 2}
\* what happens to the recording of a call: transcribed, download fails,
\* transcription fails; "none" for a message that is not transcribed
CallOutcomes == {"ok", "downloadFailed", "transcribeFailed"}
Procs == 1..NumProcs

----------------------------------------------------------------------------
(* The store client *)

\* mutant: the filter on the prompt type is missing
ActiveRowsOfAnyType(store, t) == {r \in store : r.is_active}

\* .eq('is_active', true).eq('prompt_type', t)
ActiveRows(store, t) == {r \in store : r.is_active /\ r.prompt_type = t}

\* mutant: the filter on the prompt type is missing
RowsOfAnyType(store, t) == store

\* .eq('prompt_type', t)
RowsOfType(store, t) == {r \in store : r.prompt_type = t}

\* .eq('id', id)
RowsWithId(store, id) == {r \in store : r.id = id}

\* mutant: the order is ascending
BottomVersionRows(store, t) ==
    {r \in RowsOfType(store, t) : \A q \in RowsOfType(store, t) : r.version <= q.version}

\* .order('version', { ascending: false }).limit(1): the rows the store may
\* return, one of those with the greatest version
TopVersionRows(store, t) ==
    {r \in RowsOfType(store, t) : \A q \in RowsOfType(store, t) : q.version <= r.version}

\* .single(): error PGRST116 unless exactly one row was selected
SingleError(rows) == Cardinality(rows) # 1

\* .single(): data is the row when exactly one was selected, else null
SingleData(rows) == IF Cardinality(rows) = 1 THEN rows ELSE {}

\* .order('version', { ascending: false }).limit(1).single(): the results the
\* store may give, each the empty set (null) or one row
LatestResults(store, t) ==
    IF TopVersionRows(store, t) = {} THEN {{}}
    ELSE {SingleData({r}) : r \in TopVersionRows(store, t)}

\* (maxData?.version || 0) + 1, maxData the data of the single() query
NextVersion(data) == (IF data = {} THEN 0 ELSE (CHOOSE r \in data : TRUE).version) + 1

\* mutant: the deactivating update matches no row
DeactivateActiveNone(store, t) == store

\* update({ is_active: false }).eq('is_active', true).eq('prompt_type', t)
DeactivateActive(store, t) ==
    {IF r.is_active /\ r.prompt_type = t THEN [r EXCEPT !.is_active = FALSE] ELSE r
        : r \in store}

\* mutant: the activating update matches no row
ActivateNone(store, id) == store

\* mutant: the activating update sets is_active on the rows it should skip
ActivateOthers(store, id) ==
    {IF r.id # id THEN [r EXCEPT !.is_active = TRUE] ELSE r : r \in store}

\* update({ is_active: true }).eq('id', id)
ActivateId(store, id) ==
    {IF r.id = id THEN [r EXCEPT !.is_active = TRUE] ELSE r : r \in store}

\* settings || { includeContactInfo: true, ... }: the settings of a prompt
\* created without any
DefaultSettings == [includeContactInfo |-> TRUE]

\* insert({ version, settings, is_active: true, prompt_type }) with a
\* store-assigned id
InsertWithSettings(store, id, t, v, settings) ==
    store \cup {[id |-> id, prompt_type |-> t, version |-> v, is_active |-> TRUE,
                 settings |-> settings]}

\* the insert of a request whose body has no settings
InsertActive(store, id, t, v) == InsertWithSettings(store, id, t, v, DefaultSettings)

\* delete().eq('id', id)
DeleteId(store, id) == {r \in store : r.id # id}

----------------------------------------------------------------------------
(* Responses of the prompt endpoints *)

\* op, status: the endpoint and the HTTP status; id, type, version: the prompt
\* of the response; wasActive: is_active of the row the handler fetched
\* (promptToRestore) or deleted (deleted)
NoResp ==
    [op |-> "none", status |-> 0, id |-> 0, type |-> "none", version |-> 0,
     wasActive |-> FALSE]

Resp(op, status, id, t, v, a) ==
    [op |-> op, status |-> status, id |-> id, type |-> t, version |-> v, wasActive |-> a]

\* analyze-contact before its first request
IdleRequest ==
    [pc |-> "idle", contactId |-> "", promptId |-> 0, promptType |-> "none",
     includeWhatsApp |-> FALSE, includeSMS |-> FALSE, includeCalls |-> FALSE,
     prompt |-> {}, nConvs |-> 0, fetched |-> <<>>, allMessages |-> <<>>,
     transcriptions |-> <<>>, crm |-> 0, stt |-> 0, llm |-> 0, inserts |-> 0,
     status |-> 0, error |-> "none", errorType |-> "none", saved |-> 0,
     originalUrl |-> "none", input |-> <<>>]

\* no GET /api/analyses request is being answered
NoView ==
    [op |-> "none", status |-> 0, contactId |-> "", analyses |-> <<>>, latest |-> {},
     prompts |-> <<>>]

\* GET /api/opportunities before its first request
IdleOpp ==
    [pc |-> "idle", pipelineId |-> "", pipelineStageId |-> "", limit |-> <<>>,
     pipelines |-> 0, allOpportunities |-> <<>>, nextPageUrl |-> "", hasMore |-> FALSE,
     searches |-> 0, fetchedPipelines |-> 0, limitedOpps |-> <<>>, i |-> 0,
     batch |-> <<>>, enrichedOpportunities |-> <<>>,
     started |-> {}, contactFetched |-> {}, contactFailed |-> {}, pipelineErrors |-> {},
     status |-> 0, total |-> 0, returned |-> 0]

\* a request task between requests; status is its last response (0: none yet)
IdleTask(status) ==
    [pc |-> "idle", type |-> "none", id |-> 0, version |-> 0, status |-> status]

Init ==
    /\ prompts = {}
    /\ nextId = 1
    /\ issued = {}
    /\ resp = NoResp
    /\ pp = [p \in Procs |-> IdleTask(0)]
    /\ analyses = {}
    /\ ar = IdleRequest
    /\ ar2 = IdleRequest
    /\ view = NoView
    /\ opp = IdleOpp
    /\ promptsStorage = <<>>
    /\ analysesStorage = <<>>
    /\ memRuns = <<>>
    /\ now = 1

----------------------------------------------------------------------------
(* Prompt requests executed one at a time: each handler runs to completion *)

\* POST /api/prompts
CreatePrompt(hasContent, t) ==
    /\ UNCHANGED <<pp, nonPromptVars>>
    /\ IF ~hasContent \/ t \notin PromptTypes
       THEN /\ resp' = Resp("create", 400, 0, t, 0, FALSE)
            /\ UNCHANGED promptVars
       ELSE /\ nextId <= MaxPrompts
            /\ \E maxData \in LatestResults(prompts, t) :
                 LET v == NextVersion(maxData)
                 IN /\ prompts' = InsertActive(DeactivateActive(prompts, t), nextId, t, v)
                    /\ issued' = issued \cup {<<t, v>>}
                    /\ resp' = Resp("create", 200, nextId, t, v, FALSE)
            /\ nextId' = nextId + 1

\* POST /api/prompts/:id/restore
RestorePrompt(id) ==
    /\ UNCHANGED <<pp, nextId, issued, nonPromptVars>>
    /\ LET found == RowsWithId(prompts, id)
       IN IF SingleError(found)
          THEN /\ resp' = Resp("restore", 500, id, "none", 0, FALSE)
               /\ UNCHANGED prompts
          ELSE IF SingleData(found) = {}
          THEN /\ resp' = Resp("restore", 404, id, "none", 0, FALSE)
               /\ UNCHANGED prompts
          ELSE LET row == CHOOSE r \in SingleData(found) : TRUE
               IN /\ prompts' = ActivateId(DeactivateActive(prompts, row.prompt_type), id)
                  /\ resp' = Resp("restore", 200, id, row.prompt_type, row.version,
                                   row.is_active)

\* DELETE /api/prompts/:id
DeletePrompt(id) ==
    /\ UNCHANGED <<pp, nextId, issued, nonPromptVars>>
    /\ LET found == RowsWithId(prompts, id)
       IN IF SingleError(found)
          THEN /\ resp' = Resp("delete", 500, id, "none", 0, FALSE)
               /\ UNCHANGED prompts
          ELSE IF SingleData(found) = {}
          THEN /\ resp' = Resp("delete", 404, id, "none", 0, FALSE)
               /\ UNCHANGED prompts
          ELSE LET deleted == CHOOSE r \in SingleData(found) : TRUE
                   rest == DeleteId(prompts, id)
               IN /\ resp' = Resp("delete", 200, id, deleted.prompt_type, deleted.version,
                                  deleted.is_active)
                  /\ IF deleted.is_active
                     THEN \E latest \in LatestResults(rest, deleted.prompt_type) :
                              prompts' = IF latest = {} THEN rest
                                         ELSE ActivateId(rest, (CHOOSE r \in latest : TRUE).id)
                     ELSE prompts' = rest

Next ==
    \/ \E hasContent \in BOOLEAN, t \in RequestedTypes : CreatePrompt(hasContent, t)
    \/ \E id \in Ids : RestorePrompt(id)
    \/ \E id \in Ids : DeletePrompt(id)

Spec == Init /\ [][Next]_vars

----------------------------------------------------------------------------
(* The prompt endpoints of the single-sequence store-backed revision       *)
(* (lines 1-1571): the same table without prompt_type, one sequence of     *)
(* versions and one active flag over all prompts.  Each handler is atomic. *)

\* update({ is_active: false }).eq('is_active', true)
SingleDeactivateAll(store) == {[r EXCEPT !.is_active = FALSE] : r \in store}

\* .order('version', { ascending: false }).limit(1).single(): the results the
\* store may give, each the empty set (null) or one row
SingleLatestResults(store) ==
    IF store = {} THEN {{}}
    ELSE {{r} : r \in {q \in store : \A o \in store : o.version <= q.version}}

\* insert({ version, is_active: true }) with a store-assigned id
SingleInsertActive(store, id, v) ==
    store \cup {[id |-> id, version |-> v, is_active |-> TRUE]}

\* POST /api/prompts
SingleCreatePrompt(hasContent) ==
    /\ UNCHANGED <<pp, issued, nonPromptVars>>
    /\ IF ~hasContent
       THEN /\ resp' = Resp("create", 400, 0, "none", 0, FALSE)
            /\ UNCHANGED <<prompts, nextId>>
       ELSE /\ nextId <= MaxPrompts
            /\ \E maxData \in SingleLatestResults(prompts) :
                 LET v == NextVersion(maxData)
                 IN /\ prompts' = SingleInsertActive(SingleDeactivateAll(prompts), nextId, v)
                    /\ resp' = Resp("create", 200, nextId, "none", v, FALSE)
            /\ nextId' = nextId + 1

\* POST /api/prompts/:id/restore: the active rows are deactivated, then the
\* row of the id is activated and selected
SingleRestorePrompt(id) ==
    /\ UNCHANGED <<pp, nextId, issued, nonPromptVars>>
    /\ LET deactivated == SingleDeactivateAll(prompts)
           restored == RowsWithId(ActivateId(deactivated, id), id)
       IN /\ prompts' = ActivateId(deactivated, id)
          /\ IF SingleError(restored)
             THEN resp' = Resp("restore", 500, id, "none", 0, FALSE)
             ELSE IF SingleData(restored) = {}
             THEN resp' = Resp("restore", 404, id, "none", 0, FALSE)
             ELSE resp' = Resp("restore", 200, id, "none",
                               (CHOOSE r \in restored : TRUE).version, FALSE)

\* DELETE /api/prompts/:id
SingleDeletePrompt(id) ==
    /\ UNCHANGED <<pp, nextId, issued, nonPromptVars>>
    /\ LET found == RowsWithId(prompts, id)
       IN IF SingleError(found)
          THEN /\ resp' = Resp("delete", 500, id, "none", 0, FALSE)
               /\ UNCHANGED prompts
          ELSE IF SingleData(found) = {}
          THEN /\ resp' = Resp("delete", 404, id, "none", 0, FALSE)
               /\ UNCHANGED prompts
          ELSE LET deleted == CHOOSE r \in SingleData(found) : TRUE
                   rest == DeleteId(prompts, id)
               IN /\ resp' = Resp("delete", 200, id, "none", deleted.version,
                                  deleted.is_active)
                  /\ IF deleted.is_active
                     THEN \E latest \in SingleLatestResults(rest) :
                              prompts' = IF latest = {} THEN rest
                                         ELSE ActivateId(rest, (CHOOSE r \in latest : TRUE).id)
                     ELSE prompts' = rest

NextSingle ==
    \/ \E hasContent \in BOOLEAN : SingleCreatePrompt(hasContent)
    \/ \E id \in Ids : SingleRestorePrompt(id)
    \/ \E id \in Ids : SingleDeletePrompt(id)

SpecSingle == Init /\ [][NextSingle]_vars

----------------------------------------------------------------------------
(* Prompt requests running interleaved: a task suspends at every await, so *)
(* each store call is one step                                             *)

\* the tasks inside POST /api/prompts
Creating == {q \in Procs : pp[q].pc \in {"createDeactivate", "createInsert"}}

SetTask(p, task) == pp' = [pp EXCEPT ![p] = task]

\* POST /api/prompts, up to the read of the greatest version
CreateReadMax(p, t) ==
    /\ pp[p].pc = "idle"
    /\ nextId + Cardinality(Creating) <= MaxConcPrompts
    /\ \E maxData \in LatestResults(prompts, t) :
         SetTask(p, [pc |-> "createDeactivate", type |-> t, id |-> 0,
                     version |-> NextVersion(maxData), status |-> 0])
    /\ UNCHANGED <<promptVars, resp, nonPromptVars>>

\* POST /api/prompts: deactivate the active rows of the type
CreateDeactivate(p) ==
    /\ pp[p].pc = "createDeactivate"
    /\ prompts' = DeactivateActive(prompts, pp[p].type)
    /\ SetTask(p, [pp[p] EXCEPT !.pc = "createInsert"])
    /\ UNCHANGED <<nextId, issued, resp, nonPromptVars>>

\* POST /api/prompts: insert the new active row and respond
CreateInsert(p) ==
    /\ pp[p].pc = "createInsert"
    /\ prompts' = InsertActive(prompts, nextId, pp[p].type, pp[p].version)
    /\ nextId' = nextId + 1
    /\ issued' = issued \cup {<<pp[p].type, pp[p].version>>}
    /\ SetTask(p, IdleTask(200))
    /\ UNCHANGED <<resp, nonPromptVars>>

\* POST /api/prompts/:id/restore, up to the fetch of the row
RestoreFetch(p, id) ==
    /\ pp[p].pc = "idle"
    /\ LET found == RowsWithId(prompts, id)
       IN IF SingleError(found) THEN SetTask(p, IdleTask(500))
          ELSE IF SingleData(found) = {} THEN SetTask(p, IdleTask(404))
          ELSE LET row == CHOOSE r \in SingleData(found) : TRUE
               IN SetTask(p, [pc |-> "restoreDeactivate", type |-> row.prompt_type,
                              id |-> id, version |-> row.version, status |-> 0])
    /\ UNCHANGED <<promptVars, resp, nonPromptVars>>

\* POST /api/prompts/:id/restore: deactivate the active rows of the type
RestoreDeactivate(p) ==
    /\ pp[p].pc = "restoreDeactivate"
    /\ prompts' = DeactivateActive(prompts, pp[p].type)
    /\ SetTask(p, [pp[p] EXCEPT !.pc = "restoreActivate"])
    /\ UNCHANGED <<nextId, issued, resp, nonPromptVars>>

\* POST /api/prompts/:id/restore: activate the row and respond
RestoreActivate(p) ==
    /\ pp[p].pc = "restoreActivate"
    /\ prompts' = ActivateId(prompts, pp[p].id)
    /\ SetTask(p, IdleTask(IF SingleError(RowsWithId(prompts, pp[p].id)) THEN 500 ELSE 200))
    /\ UNCHANGED <<nextId, issued, resp, nonPromptVars>>

\* DELETE /api/prompts/:id, up to the delete of the row
DeleteRow(p, id) ==
    /\ pp[p].pc = "idle"
    /\ LET found == RowsWithId(prompts, id)
       IN IF SingleError(found)
          THEN SetTask(p, IdleTask(500)) /\ UNCHANGED prompts
          ELSE IF SingleData(found) = {}
          THEN SetTask(p, IdleTask(404)) /\ UNCHANGED prompts
          ELSE LET deleted == CHOOSE r \in SingleData(found) : TRUE
               IN /\ prompts' = DeleteId(prompts, id)
                  /\ IF deleted.is_active
                     THEN SetTask(p, [pc |-> "deleteLatest", type |-> deleted.prompt_type,
                                      id |-> id, version |-> deleted.version, status |-> 0])
                     ELSE SetTask(p, IdleTask(200))
    /\ UNCHANGED <<nextId, issued, resp, nonPromptVars>>

\* DELETE /api/prompts/:id: read the remaining row with the greatest version
DeleteLatest(p) ==
    /\ pp[p].pc = "deleteLatest"
    /\ \E latest \in LatestResults(prompts, pp[p].type) :
         IF latest = {} THEN SetTask(p, IdleTask(200))
         ELSE SetTask(p, [pp[p] EXCEPT !.pc = "deleteActivate",
                                       !.id = (CHOOSE r \in latest : TRUE).id])
    /\ UNCHANGED <<promptVars, resp, nonPromptVars>>

\* DELETE /api/prompts/:id: activate that row and respond
DeleteActivate(p) ==
    /\ pp[p].pc = "deleteActivate"
    /\ prompts' = ActivateId(prompts, pp[p].id)
    /\ SetTask(p, IdleTask(200))
    /\ UNCHANGED <<nextId, issued, resp, nonPromptVars>>

NextConc ==
    \/ \E p \in Procs, t \in PromptTypes : CreateReadMax(p, t)
    \/ \E p \in Procs : CreateDeactivate(p)
    \/ \E p \in Procs : CreateInsert(p)
    \/ \E p \in Procs, id \in Ids : RestoreFetch(p, id)
    \/ \E p \in Procs : RestoreDeactivate(p)
    \/ \E p \in Procs : RestoreActivate(p)
    \/ \E p \in Procs, id \in Ids : DeleteRow(p, id)
    \/ \E p \in Procs : DeleteLatest(p)
    \/ \E p \in Procs : DeleteActivate(p)

SpecConc == Init /\ [][NextConc]_vars

\* no request task has started yet
NoTaskStarted == \A p \in Procs : pp[p].pc = "idle" /\ pp[p].status = 0

\* a prompt is created, on its own, before the interleaved requests
CreateFirst(t) ==
    /\ NoTaskStarted
    /\ nextId < MaxConcPrompts
    /\ CreatePrompt(TRUE, t)

\* the first task starts its one request: the delete of an active prompt
DeleteActiveStart(id) ==
    /\ pp[1].pc = "idle" /\ pp[1].status = 0
    /\ \E r \in prompts : r.id = id /\ r.is_active
    /\ DeleteRow(1, id)

\* the second task starts its one request: a create
CreateStart(t) ==
    /\ pp[2].pc = "idle" /\ pp[2].status = 0
    /\ CreateReadMax(2, t)

\* the second task starts its one request: a restore
RestoreStart(id) ==
    /\ pp[2].pc = "idle" /\ pp[2].status = 0
    /\ RestoreFetch(2, id)

\* prompts created one at a time, then the delete of an active prompt
\* interleaved with one create or one restore
NextConcDelete ==
    \/ \E t \in PromptTypes : CreateFirst(t)
    \/ \E id \in Ids : DeleteActiveStart(id)
    \/ \E t \in PromptTypes : CreateStart(t)
    \/ \E id \in Ids : RestoreStart(id)
    \/ DeleteLatest(1)
    \/ DeleteActivate(1)
    \/ CreateDeactivate(2)
    \/ CreateInsert(2)
    \/ RestoreDeactivate(2)
    \/ RestoreActivate(2)

SpecConcDelete == Init /\ [][NextConcDelete]_vars

\* only POST /api/prompts requests run, interleaved
NextConcCreate ==
    \/ \E p \in Procs, t \in PromptTypes : CreateReadMax(p, t)
    \/ \E p \in Procs : CreateDeactivate(p)
    \/ \E p \in Procs : CreateInsert(p)

SpecConcCreate == Init /\ [][NextConcCreate]_vars

----------------------------------------------------------------------------
(* POST /api/analyze-contact; each action runs the handler from one await  *)
(* to the next. The runs of SpecAnalyze give every message the same        *)
(* timestamp.                                                              *)

\* mutant: a call is transcribed whatever includeCalls says
ClassifyAllCalls(type, includeCalls, includeSMS, includeWhatsApp) ==
    IF type = "TYPE_CALL" THEN "CALL"
    ELSE IF type = "TYPE_SMS" /\ includeSMS THEN "SMS"
    ELSE IF (type = "TYPE_WHATSAPP" \/ type = "") /\ includeWhatsApp THEN "WHATSAPP"
    ELSE "DROP"

\* mutant: a message without a type is not taken as a WhatsApp message
ClassifyTypedOnly(type, includeCalls, includeSMS, includeWhatsApp) ==
    IF type = "TYPE_CALL" /\ includeCalls THEN "CALL"
    ELSE IF type = "TYPE_SMS" /\ includeSMS THEN "SMS"
    ELSE IF type = "TYPE_WHATSAPP" /\ includeWhatsApp THEN "WHATSAPP"
    ELSE "DROP"

\* the branch of the message loop a message takes
Classify(type, includeCalls, includeSMS, includeWhatsApp) ==
    IF type = "TYPE_CALL" /\ includeCalls THEN "CALL"
    ELSE IF type = "TYPE_SMS" /\ includeSMS THEN "SMS"
    ELSE IF (type = "TYPE_WHATSAPP" \/ type = "") /\ includeWhatsApp THEN "WHATSAPP"
    ELSE "DROP"

\* mutant: the sort is not stable, m goes before the entries of its date
InsertBeforeTies(s, m) ==
    LET k == Cardinality({i \in 1..Len(s) : s[i].date < m.date})
    IN SubSeq(s, 1, k) \o <<m>> \o SubSeq(s, k + 1, Len(s))

\* s is sorted by date: m goes behind the entries that are not later than it
InsertByDate(s, m) ==
    LET k == Cardinality({i \in 1..Len(s) : s[i].date <= m.date})
    IN SubSeq(s, 1, k) \o <<m>> \o SubSeq(s, k + 1, Len(s))

RECURSIVE SortByDate(_)
\* allMessages.sort((a, b) => new Date(a.date) - new Date(b.date)), stable
SortByDate(s) ==
    IF s = <<>> THEN <<>>
    ELSE InsertByDate(SortByDate(SubSeq(s, 1, Len(s) - 1)), s[Len(s)])

\* the request at the catch block of the handler: what the try block declared
\* (prompt, allMessages, transcriptions, the loop state) is out of scope
Caught(r) ==
    [r EXCEPT !.prompt = {}, !.nConvs = 0, !.fetched = <<>>, !.allMessages = <<>>,
              !.transcriptions = <<>>, !.input = <<>>]

\* mutant: the catch block of the handler logs the error and sends nothing
FailedSilently(r, kind) == [Caught(r) EXCEPT !.pc = "caught", !.error = kind]

\* mutant: a failed model call is made once more
FailedRetriesModel(r, kind) ==
    IF kind = "model" /\ r.llm < 2 THEN [r EXCEPT !.pc = "timeline"]
    ELSE [Caught(r) EXCEPT !.pc = "done", !.status = 500, !.error = kind]

\* mutant: the catch block of the handler answers without an error status
FailedAs200(r, kind) == [Caught(r) EXCEPT !.pc = "done", !.status = 200, !.error = kind]

\* the catch block of the handler: 500 with error.message
Failed(r, kind) == [Caught(r) EXCEPT !.pc = "done", !.status = 500, !.error = kind]

\* what the handler itself puts in the response of a finished request: the
\* status and `success`; `error` is the message text of the failed library
\* call, the body has no field for the kind of failure
Envelope(r) == [status |-> r.status, success |-> r.status = 200]

\* what a finished request shows of its run: the status, and the metadata
\* and the transcriptions of the response and of the stored row
Visible(r) ==
    [status |-> r.status, error |-> r.error, totalMessages |-> Len(r.allMessages),
     totalCalls |-> Len(r.transcriptions), transcriptions |-> r.transcriptions]

\* mutant: the failure of a call reaches the catch block of the handler
CallFailedAborts(r) == Failed(r, "transcription")

\* the catch block around the transcription of a call: the failure is
\* logged and the loop goes on
CallFailed(r) == r

\* mutant: the calls are counted from the messages fetched, not transcribed
CountAllCalls(r) ==
    Cardinality({i \in 1..Len(r.fetched) : r.fetched[i].type = "TYPE_CALL"})

\* transcriptions.length
CountCalls(r) == Len(r.transcriptions)

\* the request the handler of analyze-contact receives: its body, and the
\* URL the client asked for
Request(originalUrl, body) ==
    [IdleRequest EXCEPT !.originalUrl = originalUrl,
        !.contactId = body.contactId, !.promptId = body.promptId,
        !.promptType = body.promptType, !.includeWhatsApp = body.includeWhatsApp,
        !.includeSMS = body.includeSMS, !.includeCalls = body.includeCalls]

\* the body of a request to analyze-contact
AnalyzeBody(contactId, promptId, promptType, inclWA, inclSMS, inclCalls) ==
    [contactId |-> contactId, promptId |-> promptId, promptType |-> promptType,
     includeWhatsApp |-> inclWA, includeSMS |-> inclSMS, includeCalls |-> inclCalls]

\* mutant: the handler goes from the prompt to the conversations, the
\* contact left out
SelectedSkipsContact(req) ==
    LET prompt == IF req.promptId # 0 THEN SingleData(RowsWithId(prompts, req.promptId))
                  ELSE SingleData(ActiveRows(prompts, req.promptType))
    IN IF req.contactId = ""
       THEN [req EXCEPT !.pc = "done", !.status = 400, !.error = "contactIdRequired"]
       ELSE IF prompt = {}
       THEN [req EXCEPT !.pc = "done", !.status = 400, !.error = "noActivePrompt",
                        !.errorType = req.promptType]
       ELSE [req EXCEPT !.pc = "fetchConversations", !.prompt = prompt]

\* the handler from the request to the answer of the prompt query
Selected(req) ==
    LET prompt == IF req.promptId # 0 THEN SingleData(RowsWithId(prompts, req.promptId))
                  ELSE SingleData(ActiveRows(prompts, req.promptType))
    IN IF req.contactId = ""
       THEN [req EXCEPT !.pc = "done", !.status = 400, !.error = "contactIdRequired"]
       ELSE IF prompt = {}
       THEN [req EXCEPT !.pc = "done", !.status = 400, !.error = "noActivePrompt",
                        !.errorType = req.promptType]
       ELSE [req EXCEPT !.pc = "fetchContact", !.prompt = prompt]

\* POST /api/analyze-contact
AnalyzeSelectPrompt(contactId, promptId, promptType, inclWA, inclSMS, inclCalls) ==
    /\ ar.pc = "idle"
    /\ ar' = Selected(Request("analyze-contact",
                AnalyzeBody(contactId, promptId, promptType, inclWA, inclSMS, inclCalls)))
    /\ UNCHANGED <<analyses, nonAnalyzeVars>>

\* mutant: the delegated body leaves the calls out
ReanalyzeBodyNoCalls(contactId, promptId, promptType) ==
    AnalyzeBody(contactId, promptId, promptType, TRUE, TRUE, FALSE)

\* the body reanalyze hands to the router: the contact of the path, the
\* prompt id and type of its own body, the three flags true
ReanalyzeBody(contactId, promptId, promptType) ==
    AnalyzeBody(contactId, promptId, promptType, TRUE, TRUE, TRUE)

\* POST /api/analyses/:contactId/reanalyze: app._router.handle dispatches the
\* copied request, url and body replaced, to the handler of analyze-contact
Reanalyze(contactId, promptId, promptType) ==
    /\ ar.pc = "idle"
    /\ ar' = Selected(Request("reanalyze", ReanalyzeBody(contactId, promptId, promptType)))
    /\ UNCHANGED <<analyses, nonAnalyzeVars>>

\* GET contacts/:contactId
AnalyzeFetchContact(ok) ==
    /\ ar.pc = "fetchContact"
    /\ IF ok THEN ar' = [ar EXCEPT !.pc = "fetchConversations", !.crm = @ + 1]
       ELSE ar' = Failed([ar EXCEPT !.crm = @ + 1], "contactFetch")
    /\ UNCHANGED <<analyses, nonAnalyzeVars>>

\* GET conversations/search
AnalyzeFetchConversations(ok) ==
    /\ ar.pc = "fetchConversations"
    /\ IF ok THEN ar' = [ar EXCEPT !.pc = "timeline", !.crm = @ + 1]
       ELSE ar' = Failed([ar EXCEPT !.crm = @ + 1], "conversationSearch")
    /\ UNCHANGED <<analyses, nonAnalyzeVars>>

\* the loop over the conversations has one more: GET conversations/:id/messages
AnalyzeFetchMessages(ok) ==
    /\ ar.pc = "timeline"
    /\ ar.nConvs < MaxConvs
    /\ IF ok THEN ar' = [ar EXCEPT !.nConvs = @ + 1, !.crm = @ + 1]
       ELSE ar' = Failed([ar EXCEPT !.crm = @ + 1], "messageFetch")
    /\ UNCHANGED <<analyses, nonAnalyzeVars>>

\* the loop over the messages of the conversation has one more: one pass of
\* its body, with the recording download and the transcription of a call
AnalyzeProcessMessage(type, date, outcome) ==
    /\ ar.pc = "timeline"
    /\ ar.nConvs >= 1
    /\ Len(ar.fetched) < MaxMsgs
    /\ LET mid == Len(ar.fetched) + 1
           class == Classify(type, ar.includeCalls, ar.includeSMS, ar.includeWhatsApp)
           entry == [type |-> class, date |-> date, mid |-> mid]
           next == [ar EXCEPT
                !.fetched = Append(@, [type |-> type, date |-> date, outcome |-> outcome]),
                !.crm = IF class = "CALL" THEN @ + 1 ELSE @,
                !.stt = IF class = "CALL" /\ outcome # "downloadFailed" THEN @ + 1 ELSE @]
       IN /\ outcome \in (IF class = "CALL" THEN CallOutcomes ELSE {"none"})
          /\ ar' = IF class = "DROP" THEN next
                   ELSE IF class = "CALL" /\ outcome # "ok" THEN CallFailed(next)
                   ELSE IF class = "CALL"
                   THEN [next EXCEPT
                           !.transcriptions = Append(@, [messageId |-> mid, date |-> date]),
                           !.allMessages = Append(@, entry)]
                   ELSE [next EXCEPT !.allMessages = Append(@, entry)]
    /\ UNCHANGED <<analyses, nonAnalyzeVars>>

\* mutant: the contact section is pushed whatever the settings say
ContextPartsAlwaysContact(settings, messages) ==
    <<"contactInfo">> \o (IF Len(messages) > 0 THEN <<"history">> ELSE <<>>)

\* contextParts: the sections pushed, by their headings
ContextParts(settings, messages) ==
    (IF settings.includeContactInfo THEN <<"contactInfo">> ELSE <<>>)
        \o (IF Len(messages) > 0 THEN <<"history">> ELSE <<>>)

RECURSIVE Join(_, _)
\* Array.prototype.join: the separator between each two elements
Join(parts, separator) ==
    IF Len(parts) = 0 THEN <<>>
    ELSE IF Len(parts) = 1 THEN parts
    ELSE <<Head(parts), separator>> \o Join(Tail(parts), separator)

\* `${prompt.content}\n\n${fullContext}`: the content of the one user message
ModelInput(prompt, messages) ==
    <<"promptContent", "blankLine">> \o Join(ContextParts(prompt.settings, messages), "separator")

\* the loops are over: build the context and invoke the model
AnalyzeInvokeModel(ok) ==
    /\ ar.pc = "timeline"
    /\ LET sorted == IF Len(ar.allMessages) > 0 THEN SortByDate(ar.allMessages)
                     ELSE ar.allMessages
           prompt == CHOOSE r \in ar.prompt : TRUE
           asked == [ar EXCEPT !.allMessages = sorted, !.llm = @ + 1,
                               !.input = ModelInput(prompt, sorted)]
       IN IF ok
          THEN ar' = [asked EXCEPT !.pc = "persist"]
          ELSE ar' = Failed(asked, "model")
    /\ UNCHANGED <<analyses, nonAnalyzeVars>>

\* mutant: the insert stores the row twice
InsertTwice(store, row) == store \cup {row, [row EXCEPT !.id = @ + 1]}

\* mutant: the insert replaces the stored rows of the contact
UpsertAnalysis(store, row) == {r \in store : r.contact_id # row.contact_id} \cup {row}

\* from('analyses').insert(row)
InsertAnalysis(store, row) == store \cup {row}

\* mutant: the row takes the type the request asked for
AnalysisRowOfRequestedType(id) ==
    LET prompt == CHOOSE r \in ar.prompt : TRUE
    IN [id |-> id, created_at |-> id, contact_id |-> ar.contactId, prompt_id |-> prompt.id,
        prompt_version |-> prompt.version, prompt_type |-> ar.promptType,
        transcriptions |-> ar.transcriptions,
        totalMessages |-> Len(ar.allMessages), totalCalls |-> CountCalls(ar)]

\* the row the handler inserts; the store sets id and created_at, the time
\* of the insert, here its number
AnalysisRow(id) ==
    LET prompt == CHOOSE r \in ar.prompt : TRUE
    IN [id |-> id, created_at |-> id, contact_id |-> ar.contactId, prompt_id |-> prompt.id,
        prompt_version |-> prompt.version, prompt_type |-> prompt.prompt_type,
        transcriptions |-> ar.transcriptions,
        totalMessages |-> Len(ar.allMessages), totalCalls |-> CountCalls(ar)]

\* insert the analysis and respond
AnalyzePersist(ok) ==
    /\ ar.pc = "persist"
    /\ IF ok
       THEN LET row == AnalysisRow(Cardinality(analyses) + 1)
            IN /\ analyses' = InsertAnalysis(analyses, row)
               /\ ar' = [ar EXCEPT !.pc = "done", !.status = 200, !.inserts = @ + 1,
                                    !.saved = row.id]
       ELSE /\ analyses' = analyses
            /\ ar' = Failed([ar EXCEPT !.inserts = @ + 1], "store")
    /\ UNCHANGED nonAnalyzeVars

\* the response is sent and the handler returns: its locals are gone
AnalyzeReturn ==
    /\ ar.pc = "done"
    /\ ar' = IdleRequest
    /\ UNCHANGED <<analyses, nonAnalyzeVars>>

\* a request arrives while no analysis is stored: the handler never reads the
\* analyses table, so its runs are followed up to the first stored row
AnalyzeRequest(contactId, promptId, promptType, inclWA, inclSMS, inclCalls) ==
    /\ analyses = {}
    /\ AnalyzeSelectPrompt(contactId, promptId, promptType, inclWA, inclSMS, inclCalls)

\* a prompt is created between two analyze-contact requests
AnalyzeCreatePrompt(t) ==
    /\ ar.pc = "idle"
    /\ nextId <= MaxAnalyzePrompts
    /\ CreatePrompt(TRUE, t)

\* POST /api/prompts with settings in its body, between two analyze-contact
\* requests
AnalyzeCreatePromptWithSettings(t, settings) ==
    /\ ar.pc = "idle"
    /\ nextId <= MaxAnalyzePrompts
    /\ t \in PromptTypes
    /\ \E maxData \in LatestResults(prompts, t) :
         LET v == NextVersion(maxData)
         IN /\ prompts' = InsertWithSettings(DeactivateActive(prompts, t), nextId, t, v,
                                             settings)
            /\ issued' = issued \cup {<<t, v>>}
            /\ resp' = Resp("create", 200, nextId, t, v, FALSE)
    /\ nextId' = nextId + 1
    /\ UNCHANGED <<pp, nonPromptVars>>

NextAnalyze ==
    \/ \E t \in PromptTypes : AnalyzeCreatePrompt(t)
    \/ \E c \in ContactIds, id \in 0..MaxAnalyzePrompts, t \in RequestedTypes,
          wa \in BOOLEAN, sms \in BOOLEAN, calls \in BOOLEAN :
          AnalyzeRequest(c, id, t, wa, sms, calls)
    \/ \E ok \in BOOLEAN : AnalyzeFetchContact(ok)
    \/ \E ok \in BOOLEAN : AnalyzeFetchConversations(ok)
    \/ \E ok \in BOOLEAN : AnalyzeFetchMessages(ok)
    \/ \E type \in MsgTypes, outcome \in CallOutcomes \cup {"none"} :
          AnalyzeProcessMessage(type, 1, outcome)
    \/ \E ok \in BOOLEAN : AnalyzeInvokeModel(ok)
    \/ \E ok \in BOOLEAN : AnalyzePersist(ok)
    \/ AnalyzeReturn

SpecAnalyze == Init /\ [][NextAnalyze]_vars

\* analyze-contact with every channel included and no failure but of calls,
\* over SMS and call messages of either timestamp
NextTimeline ==
    \/ AnalyzeCreatePrompt("setter")
    \/ AnalyzeRequest("c1", 0, "setter", TRUE, TRUE, TRUE)
    \/ AnalyzeFetchContact(TRUE)
    \/ AnalyzeFetchConversations(TRUE)
    \/ AnalyzeFetchMessages(TRUE)
    \/ \E type \in {"TYPE_SMS", "TYPE_CALL"}, date \in Dates,
          outcome \in {"ok", "transcribeFailed", "none"} :
          AnalyzeProcessMessage(type, date, outcome)
    \/ AnalyzeInvokeModel(TRUE)
    \/ AnalyzePersist(TRUE)
    \/ AnalyzeReturn

SpecTimeline == Init /\ [][NextTimeline]_vars

\* analyze-contact where every call the handler awaits returns or fails: the
\* handler goes on from each await, and its loops over the conversations
\* and the messages, which are finite arrays, come to their end
NextAnalyzeLive ==
    \/ AnalyzeCreatePrompt("setter")
    \/ \E c \in ContactIds, t \in RequestedTypes : AnalyzeRequest(c, 0, t, TRUE, TRUE, TRUE)
    \/ \E ok \in BOOLEAN : AnalyzeFetchContact(ok)
    \/ \E ok \in BOOLEAN : AnalyzeFetchConversations(ok)
    \/ \E ok \in BOOLEAN : AnalyzeFetchMessages(ok)
    \/ \E type \in {"TYPE_SMS", "TYPE_CALL"}, outcome \in CallOutcomes \cup {"none"} :
          AnalyzeProcessMessage(type, 1, outcome)
    \/ \E ok \in BOOLEAN : AnalyzeInvokeModel(ok)
    \/ \E ok \in BOOLEAN : AnalyzePersist(ok)
    \/ AnalyzeReturn

AnalyzeFairness ==
    /\ WF_vars(\E ok \in BOOLEAN : AnalyzeFetchContact(ok))
    /\ WF_vars(\E ok \in BOOLEAN : AnalyzeFetchConversations(ok))
    /\ WF_vars(\E ok \in BOOLEAN : AnalyzeInvokeModel(ok))
    /\ WF_vars(\E ok \in BOOLEAN : AnalyzePersist(ok))

SpecAnalyzeLive == Init /\ [][NextAnalyzeLive]_vars /\ AnalyzeFairness

\* a prompt is created, whatever analyze-contact is doing
ResolvedCreatePrompt(t) ==
    /\ nextId < MaxPrompts
    /\ CreatePrompt(TRUE, t)

\* analyze-contact of a contact without conversations, by prompt id or by
\* type, while prompts of both types are created and restored
NextResolved ==
    \/ \E t \in PromptTypes : ResolvedCreatePrompt(t)
    \/ \E id \in Ids : RestorePrompt(id)
    \/ \E id \in 0..MaxPrompts - 1, t \in PromptTypes :
          AnalyzeRequest("c1", id, t, TRUE, TRUE, TRUE)
    \/ AnalyzeFetchContact(TRUE)
    \/ AnalyzeFetchConversations(TRUE)
    \/ AnalyzeInvokeModel(TRUE)
    \/ AnalyzePersist(TRUE)
    \/ AnalyzeReturn

SpecResolved == Init /\ [][NextResolved]_vars

\* analyze-contact under prompts of either setting, over messages of every
\* type, the model failing or not
NextContext ==
    \/ AnalyzeCreatePrompt("setter")
    \/ \E b \in BOOLEAN :
          AnalyzeCreatePromptWithSettings("setter", [includeContactInfo |-> b])
    \/ \E wa \in BOOLEAN : AnalyzeRequest("c1", 0, "setter", wa, TRUE, TRUE)
    \/ AnalyzeFetchContact(TRUE)
    \/ AnalyzeFetchConversations(TRUE)
    \/ AnalyzeFetchMessages(TRUE)
    \/ \E type \in MsgTypes, outcome \in {"ok", "transcribeFailed", "none"} :
          AnalyzeProcessMessage(type, 1, outcome)
    \/ \E ok \in BOOLEAN : AnalyzeInvokeModel(ok)
    \/ AnalyzePersist(TRUE)
    \/ AnalyzeReturn

SpecContext == Init /\ [][NextContext]_vars

(***************************************************************************)
(* Two analyze-contact requests.  The handler is an async function: at     *)
(* each await the event loop may run the other request up to its next      *)
(* await.  `ar` is the request that runs, `ar2` the one that waits.        *)
(***************************************************************************)
\* the requests that have not answered yet
InFlight == Cardinality({i \in {1, 2} :
                (IF i = 1 THEN ar ELSE ar2).pc \notin {"idle", "done"}})

\* the event loop resumes the other request
Switch ==
    /\ ar # ar2
    /\ ar' = ar2
    /\ ar2' = ar
    /\ UNCHANGED <<prompts, nextId, issued, resp, pp, analyses, view, opp, memVars>>

\* a request arrives, as long as the runs can store at most MaxAnalyses rows
AnalyzeArrive(contactId, promptId, promptType, inclWA, inclSMS, inclCalls) ==
    /\ Cardinality(analyses) + InFlight < MaxAnalyses
    /\ AnalyzeSelectPrompt(contactId, promptId, promptType, inclWA, inclSMS, inclCalls)

\* a prompt is created before the first analyze-contact request
AnalyzeFirstPrompt(t) ==
    /\ ar2.pc = "idle"
    /\ analyses = {}
    /\ AnalyzeCreatePrompt(t)

NextAnalyzeConc ==
    \/ AnalyzeFirstPrompt("setter")
    \/ AnalyzeArrive("c1", 0, "setter", TRUE, TRUE, TRUE)
    \/ AnalyzeFetchContact(TRUE)
    \/ AnalyzeFetchConversations(TRUE)
    \/ AnalyzeFetchMessages(TRUE)
    \/ AnalyzeProcessMessage("TYPE_SMS", 1, "none")
    \/ AnalyzeInvokeModel(TRUE)
    \/ AnalyzePersist(TRUE)
    \/ AnalyzeReturn
    \/ Switch

SpecAnalyzeConc == Init /\ [][NextAnalyzeConc]_vars

(***************************************************************************)
(* The reads of the analyses table, and the requests that write it, one    *)
(* request at a time.                                                      *)
(***************************************************************************)
\* .eq('contact_id', contactId)
RowsOfContact(store, contactId) == {r \in store : r.contact_id = contactId}

RECURSIVE OrderByCreatedAsc(_)
\* mutant: the rows oldest first
OrderByCreatedAsc(rows) ==
    IF rows = {} THEN <<>>
    ELSE LET first == CHOOSE r \in rows : \A q \in rows : r.created_at <= q.created_at
         IN <<first>> \o OrderByCreatedAsc(rows \ {first})

RECURSIVE OrderByCreatedDesc(_)
\* .order('created_at', { ascending: false })
OrderByCreatedDesc(rows) ==
    IF rows = {} THEN <<>>
    ELSE LET first == CHOOSE r \in rows : \A q \in rows : r.created_at >= q.created_at
         IN <<first>> \o OrderByCreatedDesc(rows \ {first})

\* .limit(n)
Limit(s, n) == SubSeq(s, 1, IF Len(s) < n THEN Len(s) ELSE n)

\* the rows of a result
Range(s) == {s[i] : i \in 1..Len(s)}

\* GET /api/analyses/:contactId
GetHistory(contactId, ok) ==
    /\ view = NoView
    /\ view' = IF ok
               THEN [NoView EXCEPT !.op = "history", !.status = 200, !.contactId = contactId,
                        !.analyses = OrderByCreatedDesc(RowsOfContact(analyses, contactId))]
               ELSE [NoView EXCEPT !.op = "history", !.status = 500, !.contactId = contactId]
    /\ UNCHANGED nonViewVars

\* GET /api/analyses/:contactId/latest; `analysis` is null when .single()
\* finds no row
GetLatest(contactId, ok) ==
    /\ view = NoView
    /\ view' = IF ok
               THEN [NoView EXCEPT !.op = "latest", !.status = 200, !.contactId = contactId,
                        !.latest = SingleData(Range(Limit(
                            OrderByCreatedDesc(RowsOfContact(analyses, contactId)), 1)))]
               ELSE [NoView EXCEPT !.op = "latest", !.status = 500, !.contactId = contactId]
    /\ UNCHANGED nonViewVars

\* the response is sent
ViewReturn ==
    /\ view # NoView
    /\ view' = NoView
    /\ UNCHANGED nonViewVars

\* a request to reanalyze arrives, under the bound of AnalyzeArrive
ReanalyzeArrive(contactId, promptId, promptType) ==
    /\ Cardinality(analyses) + InFlight < MaxAnalyses
    /\ Reanalyze(contactId, promptId, promptType)

\* the contacts have no conversation: the search returns an empty list and
\* the timeline is empty
NextAnalyses ==
    \/ AnalyzeCreatePrompt("setter")
    \/ \E c \in Contacts, t \in PromptTypes : AnalyzeArrive(c, 0, t, TRUE, TRUE, TRUE)
    \/ \E c \in Contacts, id \in 0..MaxAnalyzePrompts, t \in PromptTypes :
          ReanalyzeArrive(c, id, t)
    \/ \E ok \in BOOLEAN : AnalyzeFetchContact(ok)
    \/ \E ok \in BOOLEAN : AnalyzeFetchConversations(ok)
    \/ \E ok \in BOOLEAN : AnalyzeInvokeModel(ok)
    \/ \E ok \in BOOLEAN : AnalyzePersist(ok)
    \/ AnalyzeReturn
    \/ \E c \in Contacts, ok \in BOOLEAN : GetHistory(c, ok)
    \/ \E c \in Contacts, ok \in BOOLEAN : GetLatest(c, ok)
    \/ ViewReturn

SpecAnalyses == Init /\ [][NextAnalyses]_vars

(***************************************************************************)
(* The reads of the prompts: GET /api/prompts/history and /active, in the  *)
(* store-backed revision and in the in-memory revision (lines 3774-4613),  *)
(* whose prompts are the elements of the array promptsStorage.             *)
(***************************************************************************)
RECURSIVE OrderByVersionDesc(_)
\* .order('version', { ascending: false }); the order of two rows of equal
\* version, of different types, is the store's
OrderByVersionDesc(rows) ==
    IF rows = {} THEN <<>>
    ELSE LET first == CHOOSE r \in rows : \A q \in rows : r.version >= q.version
         IN <<first>> \o OrderByVersionDesc(rows \ {first})

\* GET /api/prompts/history?type=t, "" for no type
PromptHistory(t, ok) ==
    /\ view = NoView
    /\ view' = IF ok
               THEN [NoView EXCEPT !.op = "promptHistory", !.status = 200,
                        !.prompts = OrderByVersionDesc(
                            IF t = "" THEN prompts ELSE RowsOfType(prompts, t))]
               ELSE [NoView EXCEPT !.op = "promptHistory", !.status = 500]
    /\ UNCHANGED nonViewVars

\* GET /api/prompts/active?type=t
PromptActive(t, ok) ==
    /\ view = NoView
    /\ view' = IF ok
               THEN [NoView EXCEPT !.op = "promptActive", !.status = 200,
                        !.prompts = OrderByVersionDesc(SingleData(ActiveRows(prompts, t)))]
               ELSE [NoView EXCEPT !.op = "promptActive", !.status = 500]
    /\ UNCHANGED nonViewVars

\* promptsStorage.forEach(p => p.isActive = false)
MemDeactivateAll(s) == [k \in 1..Len(s) |-> [s[k] EXCEPT !.isActive = FALSE]]

\* Math.max(...promptsStorage.map(p => p.version)), 0 for the empty array
MemMaxVersion(s) ==
    IF s = <<>> THEN 0
    ELSE CHOOSE v \in {s[k].version : k \in 1..Len(s)} : \A k \in 1..Len(s) : s[k].version <= v

RECURSIVE MemInsertByVersion(_, _)
\* m put after the elements of the sorted s whose version is not lower
MemInsertByVersion(s, m) ==
    IF s = <<>> THEN <<m>>
    ELSE IF Head(s).version >= m.version THEN <<Head(s)>> \o MemInsertByVersion(Tail(s), m)
    ELSE <<m>> \o s

RECURSIVE MemSortDesc(_)
\* Array.prototype.sort((a, b) => b.version - a.version): stable
MemSortDesc(s) ==
    IF s = <<>> THEN <<>>
    ELSE MemInsertByVersion(MemSortDesc(SubSeq(s, 1, Len(s) - 1)), s[Len(s)])

\* the clock goes on by a millisecond
MemTick ==
    /\ now < MaxPrompts
    /\ now' = now + 1
    /\ UNCHANGED <<promptsStorage, memAnalysisVars, nonMemVars>>

\* findIndex(p => p.id === id): the first index of the id, 0 for -1
MemFindIndex(s, id) ==
    IF \E k \in 1..Len(s) : s[k].id = id
    THEN CHOOSE k \in 1..Len(s) : s[k].id = id /\ \A j \in 1..k - 1 : s[j].id # id
    ELSE 0

\* in-memory POST /api/prompts: the id is made of the clock
MemCreatePrompt(hasContent) ==
    /\ MemMaxVersion(promptsStorage) < MaxPrompts
    /\ IF ~hasContent THEN UNCHANGED promptsStorage
       ELSE promptsStorage' = Append(MemDeactivateAll(promptsStorage),
                [id |-> now, version |-> MemMaxVersion(promptsStorage) + 1,
                 isActive |-> TRUE])
    /\ UNCHANGED <<now, memAnalysisVars, nonMemVars>>

\* in-memory POST /api/prompts/:id/restore: find gives the first prompt of
\* the id
MemRestorePrompt(id) ==
    /\ LET index == MemFindIndex(promptsStorage, id)
       IN promptsStorage' =
            IF index = 0 THEN promptsStorage
            ELSE [k \in 1..Len(promptsStorage) |->
                    [promptsStorage[k] EXCEPT !.isActive = (k = index)]]
    /\ UNCHANGED <<now, memAnalysisVars, nonMemVars>>

\* in-memory DELETE /api/prompts/:id: splice, and when the deleted prompt
\* was the active one the array is sorted and its first element activated
MemDeletePrompt(id) ==
    /\ LET index == MemFindIndex(promptsStorage, id)
           deleted == promptsStorage[index]
           spliced == SubSeq(promptsStorage, 1, index - 1)
                        \o SubSeq(promptsStorage, index + 1, Len(promptsStorage))
           sorted == MemSortDesc(spliced)
       IN promptsStorage' =
            IF index = 0 THEN promptsStorage
            ELSE IF deleted.isActive /\ Len(spliced) > 0
            THEN [sorted EXCEPT ![1].isActive = TRUE]
            ELSE spliced
    /\ UNCHANGED <<now, memAnalysisVars, nonMemVars>>

\* in-memory GET /api/prompts/history: the array is sorted where it is
MemHistory ==
    /\ promptsStorage' = MemSortDesc(promptsStorage)
    /\ UNCHANGED <<now, memAnalysisVars, nonMemVars>>

\* in-memory GET /api/prompts/active
MemActive ==
    /\ UNCHANGED <<memVars, nonMemVars>>

\* in-memory POST /api/analyze-contact up to its first await: the prompt is
\* the first of the given id (0: none given) or the first active one
MemAnalyzeArrive(contactId, promptId) ==
    /\ Len(analysesStorage) + Len(memRuns) < MaxAnalyses
    /\ LET Wanted(p) == IF promptId # 0 THEN p.id = promptId ELSE p.isActive
           found == SelectSeq(promptsStorage, Wanted)
       IN memRuns' =
            IF contactId = "" \/ found = <<>> THEN memRuns
            ELSE Append(memRuns, [contactId |-> contactId, promptId |-> found[1].id,
                                  promptVersion |-> found[1].version])
    /\ UNCHANGED <<promptsStorage, analysesStorage, now, nonMemVars>>

\* the k-th waiting request goes on from the answer of the model, its last
\* await, or one of its awaits fails: the analysis is pushed with an id made
\* of the clock; the awaits before touch none of the arrays
MemAnalyzeSave(k, ok) ==
    /\ k \in 1..Len(memRuns)
    /\ memRuns' = SubSeq(memRuns, 1, k - 1) \o SubSeq(memRuns, k + 1, Len(memRuns))
    /\ analysesStorage' =
          IF ok THEN Append(analysesStorage,
                        [id |-> now, contactId |-> memRuns[k].contactId,
                         promptId |-> memRuns[k].promptId,
                         promptVersion |-> memRuns[k].promptVersion])
          ELSE analysesStorage
    /\ UNCHANGED <<promptsStorage, now, nonMemVars>>

\* create-prompt and analyze-contact requests of the in-memory revision, in
\* any order, the analyze-contact requests interleaved at their awaits
NextMemory ==
    \/ MemTick
    \/ \E hasContent \in BOOLEAN : MemCreatePrompt(hasContent)
    \/ \E c \in ContactIds, id \in {0} \cup Ids : MemAnalyzeArrive(c, id)
    \/ \E k \in 1..MaxAnalyses, ok \in BOOLEAN : MemAnalyzeSave(k, ok)

SpecMemory == Init /\ [][NextMemory]_vars

NextPromptReads ==
    \/ \E t \in PromptTypes : AnalyzeCreatePrompt(t)
    \/ \E t \in PromptTypes \cup {""}, ok \in BOOLEAN : PromptHistory(t, ok)
    \/ \E t \in PromptTypes, ok \in BOOLEAN : PromptActive(t, ok)
    \/ ViewReturn
    \/ MemTick
    \/ \E hasContent \in BOOLEAN : MemCreatePrompt(hasContent)
    \/ \E id \in Ids : MemRestorePrompt(id)
    \/ \E id \in Ids : MemDeletePrompt(id)
    \/ MemHistory
    \/ MemActive

SpecPromptReads == Init /\ [][NextPromptReads]_vars

(***************************************************************************)
(* GET /api/opportunities.  The query string gives `limit` as text; the    *)
(* handler converts it with parseInt where it uses it.                     *)
(***************************************************************************)
\* enrichment batch width
batchSize == 3

\* String(100), the default of `limit`
DefaultLimit == <<"1", "0", "0">>

\* the values of `limit` the requests carry
LimitTexts == {DefaultLimit, <<"1">>, <<"0">>, <<"-", "1">>, <<"a">>}

IsDigit(c) == c \in {"0", "1", "2"}
DigitValue(c) == IF c = "0" THEN 0 ELSE IF c = "1" THEN 1 ELSE 2

RECURSIVE ParseDigits(_, _)
\* the value of the leading digits of s, after the digits read so far
ParseDigits(s, read) ==
    IF s = <<>> \/ ~IsDigit(Head(s)) THEN read
    ELSE ParseDigits(Tail(s), read * 10 + DigitValue(Head(s)))

\* parseInt: an optional sign, then the leading digits; NaN without a digit
ParseInt(s) ==
    LET negative == s # <<>> /\ Head(s) = "-"
        digits == IF negative THEN Tail(s) ELSE s
    IN IF digits = <<>> \/ ~IsDigit(Head(digits)) THEN [nan |-> TRUE, n |-> 0]
       ELSE [nan |-> FALSE, n |-> (IF negative THEN -1 ELSE 1) * ParseDigits(digits, 0)]

\* Array.prototype.slice(0, end): NaN counts as 0, a negative end counts
\* from the end of the array
SliceTo(s, end) ==
    LET e == IF end.nan THEN 0
             ELSE IF end.n < 0 THEN (IF Len(s) + end.n < 0 THEN 0 ELSE Len(s) + end.n)
             ELSE IF end.n > Len(s) THEN Len(s) ELSE end.n
    IN SubSeq(s, 1, e)

\* the id of the k-th pipeline
PipelineId(k) == IF k = 1 THEN "p1" ELSE IF k = 2 THEN "p2" ELSE "p3"

\* the opportunities the CRM returns: pipeline, stage, whether the embedded
\* contact has both email and phone, and the contact id ("" for none)
Opportunities ==
    {[pipelineId |-> "p1", pipelineStageId |-> "s1", contact |-> "full", contactId |-> "c1"],
     [pipelineId |-> "p2", pipelineStageId |-> "s2", contact |-> "partial", contactId |-> "c1"],
     [pipelineId |-> "p1", pipelineStageId |-> "s2", contact |-> "partial", contactId |-> ""]}

\* the answers of the CRM: up to MaxPage opportunities
Pages == UNION {[1..n -> Opportunities] : n \in 0..MaxPage}

\* the next-page URLs of a search answer; "" is none
Urls == {"", "search", "page2"}

\* the opportunities of an answer, numbered as they are accumulated
Numbered(page, from) ==
    [k \in 1..Len(page) |->
        [id |-> from + k, pipelineId |-> page[k].pipelineId,
         pipelineStageId |-> page[k].pipelineStageId, contact |-> page[k].contact,
         contactId |-> page[k].contactId]]

\* a pipelineId, or a stage, filter is given
Given(filter) == filter # "" /\ filter # "all"

\* the filters after the paging loop
Filtered(o) ==
    LET InPipeline(x) == x.pipelineId = o.pipelineId
        InStage(x) == x.pipelineStageId = o.pipelineStageId
        byPipeline == IF Given(o.pipelineId) THEN SelectSeq(o.allOpportunities, InPipeline)
                      ELSE o.allOpportunities
    IN [o EXCEPT !.allOpportunities =
            IF Given(o.pipelineStageId) THEN SelectSeq(byPipeline, InStage) ELSE byPipeline]

\* limitedOpps
Truncated(o) ==
    [o EXCEPT !.limitedOpps = SliceTo(o.allOpportunities, ParseInt(o.limit)), !.i = 0]

\* the catch block of the enrichment of one opportunity
Stub(x) ==
    [id |-> x.id, pipelineId |-> x.pipelineId, pipelineStageId |-> "",
     contactName |-> "Unknown", hasAnalysis |-> FALSE, failed |-> TRUE]

\* the enriched record
Enriched(x, hasAnalysis) ==
    [id |-> x.id, pipelineId |-> x.pipelineId, pipelineStageId |-> x.pipelineStageId,
     contactName |-> "name", hasAnalysis |-> hasAnalysis, failed |-> FALSE]

\* mutant: the contact is fetched even when the embedded one is complete
StartTaskAlwaysFetches(x) ==
    IF x.contactId = "" THEN [pc |-> "done", opp |-> x, result |-> Stub(x)]
    ELSE [pc |-> "contact", opp |-> x, result |-> Stub(x)]

\* the enrichment of one opportunity up to its first await: the lookup of
\* the analyses, the fetch of the contact, or the throw for want of an id
StartTask(x) ==
    IF x.contact = "full" THEN [pc |-> "lookup", opp |-> x, result |-> Stub(x)]
    ELSE IF x.contactId = "" THEN [pc |-> "done", opp |-> x, result |-> Stub(x)]
    ELSE [pc |-> "contact", opp |-> x, result |-> Stub(x)]

\* res.json of the handler
Respond(o) ==
    [o EXCEPT !.pc = "done", !.status = 200, !.batch = <<>>,
              !.total = Len(o.allOpportunities), !.returned = Len(o.enrichedOpportunities)]

\* mutant: every remaining opportunity is enriched at once
BatchWidthAll(rest) == rest

\* limitedOpps.slice(i, i + batchSize).length
BatchWidth(rest) == IF rest < batchSize THEN rest ELSE batchSize

\* mutant: the failure of one contact fetch fails the whole batch
TaskFailedFailsBatch(batch, k) ==
    [j \in 1..Len(batch) |-> [batch[j] EXCEPT !.pc = "done", !.result = Stub(batch[j].opp)]]

\* the catch block of one enrichment: the task ends with its stub
TaskFailed(batch, k) == [batch EXCEPT ![k].pc = "done"]

\* mutant: a failed pipeline fetch ends the loop over the pipelines
PipelineFailedStops(o) == [o EXCEPT !.fetchedPipelines = o.pipelines]

\* the catch block of the fallback: the failure is logged and the loop goes on
PipelineFailed(o) == o

RECURSIVE Enrich(_)
\* the loop over the batches up to the next await: a batch whose tasks are
\* all done is pushed and the next batch started; after the last, the response
Enrich(o) ==
    IF o.batch # <<>> /\ \E k \in 1..Len(o.batch) : o.batch[k].pc # "done" THEN o
    ELSE LET pushed == [o EXCEPT
                 !.enrichedOpportunities = @ \o [k \in 1..Len(o.batch) |-> o.batch[k].result],
                 !.i = IF o.batch = <<>> THEN @ ELSE @ + batchSize,
                 !.batch = <<>>]
             rest == Len(pushed.limitedOpps) - pushed.i
             batch == [k \in 1..BatchWidth(rest) |->
                          StartTask(pushed.limitedOpps[pushed.i + k])]
         IN IF rest <= 0 THEN Respond(pushed)
            ELSE Enrich([pushed EXCEPT
                    !.batch = batch,
                    !.started = @ \cup {batch[k].opp.id : k \in 1..Len(batch)},
                    !.contactFetched = @ \cup
                        {batch[k].opp.id : k \in {j \in 1..Len(batch) : batch[j].pc = "contact"}}])

\* the request arrives: GET opportunities/pipelines is sent
OppRequest(pipelineId, pipelineStageId, limit) ==
    /\ opp.pc = "idle"
    /\ opp' = [IdleOpp EXCEPT !.pc = "pipelines", !.pipelineId = pipelineId,
                  !.pipelineStageId = pipelineStageId, !.limit = limit]
    /\ UNCHANGED nonOppVars

\* the pipelines arrive; with none the handler answers at once, otherwise
\* the first search page is requested
OppFetchPipelines(ok, n) ==
    /\ opp.pc = "pipelines"
    /\ opp' = IF ~ok THEN [opp EXCEPT !.pc = "done", !.status = 500]
              ELSE IF n = 0 THEN [opp EXCEPT !.pc = "done", !.status = 200]
              ELSE [opp EXCEPT !.pc = "search", !.pipelines = n, !.hasMore = TRUE]
    /\ UNCHANGED nonOppVars

\* mutant: the loop goes on as long as the upstream names a next page
MorePagesWithoutCap(o) == o.hasMore

\* the paging loop asks for one more page
MorePages(o) == o.hasMore /\ Len(o.allOpportunities) < MaxAccumulated

\* mutant: the early exit does not ask whether a pipeline filter is given
EarlyExitWithoutFilter(o) ==
    LET InPipeline(x) == x.pipelineId = o.pipelineId
        double == ParseInt(o.limit)
    IN /\ ~double.nan
       /\ Len(SelectSeq(o.allOpportunities, InPipeline)) >= double.n * 2

\* the early exit of the paging loop
EarlyExit(o) ==
    LET InPipeline(x) == x.pipelineId = o.pipelineId
        double == ParseInt(o.limit)
    IN /\ Given(o.pipelineId)
       /\ ~double.nan
       /\ Len(SelectSeq(o.allOpportunities, InPipeline)) >= double.n * 2

\* the answer to a search request arrives: one pass of the paging loop, and
\* what follows the loop up to the next await
OppSearchPage(ok, page, next) ==
    /\ opp.pc = "search"
    /\ LET url == IF opp.nextPageUrl # "" THEN opp.nextPageUrl ELSE "search"
           got == [opp EXCEPT
                     !.searches = @ + 1,
                     !.allOpportunities = @ \o Numbered(page, Len(@)),
                     !.nextPageUrl = next,
                     !.hasMore = next # "" /\ next # url]
       IN opp' = IF ~ok
                 THEN [opp EXCEPT !.pc = "fallback", !.searches = @ + 1,
                                  !.allOpportunities = <<>>]
                 ELSE IF page = <<>>
                 THEN Enrich(Truncated(Filtered([opp EXCEPT !.pc = "enrich",
                                                            !.searches = @ + 1])))
                 ELSE IF EarlyExit(got) \/ ~MorePages(got)
                 THEN Enrich(Truncated(Filtered([got EXCEPT !.pc = "enrich"])))
                 ELSE got
    /\ UNCHANGED nonOppVars

\* the fallback: the answer for one pipeline arrives; a failure skips the
\* pipeline; after the last pipeline, what follows up to the next await
OppFallbackPipeline(ok, page) ==
    /\ opp.pc = "fallback"
    /\ LET k == opp.fetchedPipelines + 1
           InThis(x) == [x EXCEPT !.pipelineId = PipelineId(k)]
           mapped == [j \in 1..Len(page) |-> InThis(page[j])]
           got == IF ok
                  THEN [opp EXCEPT !.fetchedPipelines = k,
                                   !.allOpportunities = @ \o Numbered(mapped, Len(@))]
                  ELSE PipelineFailed([opp EXCEPT !.fetchedPipelines = k,
                                                  !.pipelineErrors = @ \cup {k}])
       IN opp' = IF got.fetchedPipelines < opp.pipelines THEN got
                 ELSE Enrich(Truncated([got EXCEPT !.pc = "enrich"]))
    /\ UNCHANGED nonOppVars

\* the contact of the k-th opportunity of the batch arrives, or its fetch fails
OppTaskContact(k, ok) ==
    /\ opp.pc = "enrich"
    /\ k \in 1..Len(opp.batch)
    /\ opp.batch[k].pc = "contact"
    /\ opp' = IF ok THEN Enrich([opp EXCEPT !.batch[k].pc = "lookup"])
              ELSE Enrich([opp EXCEPT !.batch = TaskFailed(@, k),
                                      !.contactFailed = @ \cup {opp.batch[k].opp.id}])
    /\ UNCHANGED nonOppVars

\* the analyses lookup of the k-th opportunity of the batch answers; its error
\* is not read, `analysis` is then null
OppTaskLookup(k, ok) ==
    /\ opp.pc = "enrich"
    /\ k \in 1..Len(opp.batch)
    /\ opp.batch[k].pc = "lookup"
    /\ LET x == opp.batch[k].opp
           analysis == IF ok THEN SingleData(Range(Limit(
                                     OrderByCreatedDesc(RowsOfContact(analyses, x.contactId)), 1)))
                       ELSE {}
       IN opp' = Enrich([opp EXCEPT !.batch[k].pc = "done",
                                    !.batch[k].result = Enriched(x, analysis # {})])
    /\ UNCHANGED nonOppVars

\* the response is sent and the handler returns
OppReturn ==
    /\ opp.pc = "done"
    /\ opp' = IdleOpp
    /\ UNCHANGED nonOppVars

NextOpportunities ==
    \/ \E pipelineId \in {"", "all", "p1"}, stage \in {"", "s1"}, limit \in LimitTexts :
          OppRequest(pipelineId, stage, limit)
    \/ \E ok \in BOOLEAN, n \in 0..MaxPipelines : OppFetchPipelines(ok, n)
    \/ \E ok \in BOOLEAN, page \in Pages, next \in Urls : OppSearchPage(ok, page, next)
    \/ \E ok \in BOOLEAN, page \in Pages : OppFallbackPipeline(ok, page)
    \/ \E k \in 1..batchSize, ok \in BOOLEAN : OppTaskContact(k, ok)
    \/ \E k \in 1..batchSize, ok \in BOOLEAN : OppTaskLookup(k, ok)
    \/ OppReturn

SpecOpportunities == Init /\ [][NextOpportunities]_vars

\* the paging loop alone: requests with and without a pipeline filter, no
\* stage filter, every search answered, with any page and any next-page URL
NextPaging ==
    \/ \E pipelineId \in {"", "all", "p1"}, limit \in LimitTexts :
          OppRequest(pipelineId, "", limit)
    \/ OppFetchPipelines(TRUE, 1)
    \/ \E page \in Pages, next \in Urls : OppSearchPage(TRUE, page, next)
    \/ \E k \in 1..batchSize : OppTaskContact(k, TRUE)
    \/ \E k \in 1..batchSize : OppTaskLookup(k, TRUE)
    \/ OppReturn

SpecPaging == Init /\ [][NextPaging]_vars

\* the paging loop against any upstream: every search call returns, with
\* any page and any next-page URL, those that form a cycle included, or fails
NextPagingLive ==
    \/ \E pipelineId \in {"", "p1"} : OppRequest(pipelineId, "", DefaultLimit)
    \/ OppFetchPipelines(TRUE, 1)
    \/ \E ok \in BOOLEAN, page \in Pages, next \in Urls : OppSearchPage(ok, page, next)
    \/ \E ok \in BOOLEAN, page \in Pages : OppFallbackPipeline(ok, page)
    \/ \E k \in 1..batchSize, ok \in BOOLEAN : OppTaskContact(k, ok)
    \/ \E k \in 1..batchSize, ok \in BOOLEAN : OppTaskLookup(k, ok)
    \/ OppReturn

PagingFairness ==
    WF_vars(\E ok \in BOOLEAN, page \in Pages, next \in Urls : OppSearchPage(ok, page, next))

SpecPagingLive == Init /\ [][NextPagingLive]_vars /\ PagingFairness

\* the answers of the search that fill more than one batch
BatchPages == [1..batchSize + 1 -> Opportunities]

\* requests without filter and with the default limit, one pipeline, one
\* search page of batchSize + 1 opportunities
NextEnrich ==
    \/ OppRequest("", "", DefaultLimit)
    \/ OppFetchPipelines(TRUE, 1)
    \/ \E page \in BatchPages : OppSearchPage(TRUE, page, "")
    \/ \E k \in 1..batchSize, ok \in BOOLEAN : OppTaskContact(k, ok)
    \/ \E k \in 1..batchSize, ok \in BOOLEAN : OppTaskLookup(k, ok)
    \/ OppReturn

SpecEnrich == Init /\ [][NextEnrich]_vars

\* requests for the opportunities while analyses of contacts without
\* conversation are made and stored
NextHasAnalysis ==
    \/ AnalyzeCreatePrompt("setter")
    \/ \E c \in Contacts : AnalyzeArrive(c, 0, "setter", TRUE, TRUE, TRUE)
    \/ AnalyzeFetchContact(TRUE)
    \/ AnalyzeFetchConversations(TRUE)
    \/ AnalyzeInvokeModel(TRUE)
    \/ AnalyzePersist(TRUE)
    \/ AnalyzeReturn
    \/ OppRequest("", "", DefaultLimit)
    \/ OppFetchPipelines(TRUE, 1)
    \/ \E page \in Pages : OppSearchPage(TRUE, page, "")
    \/ \E k \in 1..batchSize : OppTaskContact(k, TRUE)
    \/ \E k \in 1..batchSize, ok \in BOOLEAN : OppTaskLookup(k, ok)
    \/ OppReturn

SpecHasAnalysis == Init /\ [][NextHasAnalysis]_vars

----------------------------------------------------------------------------
(* Properties of the prompt store *)

\* rows of S with prompt type t
OfType(S, t) == {r \in S : r.prompt_type = t}

\* ids of the active rows of S with prompt type t
ActiveIds(S, t) == {r.id : r \in {q \in OfType(S, t) : q.is_active}}

\* greatest version among the rows of S with prompt type t, 0 when none
MaxVersion(S, t) ==
    IF OfType(S, t) = {} THEN 0
    ELSE CHOOSE v \in {r.version : r \in OfType(S, t)} :
             \A r \in OfType(S, t) : r.version <= v

\* the last request was `op` and ended with status 200
Done(r, op) == r.op = op /\ r.status = 200

NoTaskRunning == \A p \in Procs : pp[p].pc = "idle"

\* C1: after any sequence of create, restore and delete requests run one at
\* a time from the empty store, at most one prompt of each type is active.
C1_AtMostOneActivePerType ==
    \A t \in PromptTypes : Cardinality(ActiveIds(prompts, t)) <= 1

\* C1 witness: a delete of the active prompt has run, its type still has two
\* or more prompts and the other type has an active prompt too.
C1_Witness ==
    /\ Done(resp, "delete") /\ resp.wasActive
    /\ Cardinality(OfType(prompts, resp.type)) >= 2
    /\ \E t \in PromptTypes \ {resp.type} : ActiveIds(prompts, t) # {}

\* C2: once interleaved POST /api/prompts requests have all completed, at
\* most one prompt of each type is active.
C2_ConcurrentCreateOneActive ==
    NoTaskRunning => \A t \in PromptTypes : Cardinality(ActiveIds(prompts, t)) <= 1

\* C3: a create for type T run on its own assigns 1 + the greatest version
\* among the stored prompts of type T (1 when there is none), whatever the
\* versions of the other type; the inserted row carries that version.
C3_CreateVersionIsMaxPlusOne ==
    [][Done(resp', "create") =>
          /\ resp'.version = 1 + MaxVersion(prompts, resp'.type)
          /\ \E r \in prompts' \ prompts :
                 /\ r.id = resp'.id /\ r.prompt_type = resp'.type
                 /\ r.version = resp'.version]_vars

\* C3 witness: a create got version 1 while the other type holds a greater
\* version, or got a version above every version of the other type.
C3_Witness ==
    /\ Done(resp, "create")
    /\ \E t \in PromptTypes \ {resp.type} :
          /\ OfType(prompts, t) # {}
          /\ \/ resp.version = 1 /\ MaxVersion(prompts, t) >= 2
             \/ resp.version > MaxVersion(prompts, t)

\* C4: a version once assigned to a prompt of type T is never assigned to a
\* later-created prompt of type T, also after its holder was deleted.
C4_VersionNeverReused ==
    [][Done(resp', "create") => <<resp'.type, resp'.version>> \notin issued]_vars

\* C5: a delete of the active prompt of type T leaves active exactly the
\* remaining prompt of type T with the greatest version (none when none
\* remains) and leaves the rows of the other type as they were.
C5_DeleteActiveActivatesHighest ==
    [][(Done(resp', "delete") /\ resp'.wasActive) =>
          /\ ActiveIds(prompts', resp'.type) =
                {r.id : r \in {q \in OfType(prompts', resp'.type) :
                                  q.version = MaxVersion(prompts', resp'.type)}}
          /\ Cardinality(ActiveIds(prompts', resp'.type)) <= 1
          /\ \A t \in PromptTypes \ {resp'.type} :
                 OfType(prompts', t) = OfType(prompts, t)]_vars

\* C5 witness: the active prompt was deleted, two others of its type remain,
\* and the other type has a prompt.
C5_Witness ==
    /\ Done(resp, "delete") /\ resp.wasActive
    /\ Cardinality(OfType(prompts, resp.type)) >= 2
    /\ \E r \in prompts : r.prompt_type # resp.type

\* C5 witness: the only prompt of its type was deleted while active.
C5_WitnessNoneRemains ==
    /\ Done(resp, "delete") /\ resp.wasActive
    /\ OfType(prompts, resp.type) = {}
    /\ prompts # {}

\* C6: after a restore of a stored prompt P of type T run on its own, P is
\* the only active prompt of type T and the rows of the other type are as
\* they were; no row is added or removed.
C6_RestoreActivatesOnlyTarget ==
    [][Done(resp', "restore") =>
          /\ ActiveIds(prompts', resp'.type) = {resp'.id}
          /\ \E r \in prompts : r.id = resp'.id /\ r.prompt_type = resp'.type
          /\ \A t \in PromptTypes \ {resp'.type} :
                 OfType(prompts', t) = OfType(prompts, t)
          /\ {[id |-> r.id, version |-> r.version, type |-> r.prompt_type] : r \in prompts'}
               = {[id |-> r.id, version |-> r.version, type |-> r.prompt_type] : r \in prompts}]_vars

\* C6 witness: an inactive prompt was restored while its type has another
\* prompt and the other type has an active one.
C6_Witness ==
    /\ Done(resp, "restore") /\ ~resp.wasActive
    /\ Cardinality(OfType(prompts, resp.type)) >= 2
    /\ \E t \in PromptTypes \ {resp.type} : ActiveIds(prompts, t) # {}

\* C7: a restore or a delete whose id matches no stored prompt ends with
\* 404, not with 500.
C7_UnknownIdIsNotFound ==
    [][(resp'.op \in {"restore", "delete"} /\ ~\E r \in prompts : r.id = resp'.id)
          => resp'.status = 404]_vars

----------------------------------------------------------------------------
(* Properties of analyze-contact *)

\* positions in the fetched messages of the calls with the given outcomes
CallsWith(r, outcomes) ==
    {i \in 1..Len(r.fetched) :
        r.fetched[i].type = "TYPE_CALL" /\ r.fetched[i].outcome \in outcomes}

\* the steps of a run other than the transcription of its calls
FatalSteps ==
    {"contactIdRequired", "noActivePrompt", "contactFetch", "conversationSearch",
     "messageFetch", "model", "store"}

\* C8: a run with includeCalls true in which nothing but recording
\* downloads or transcriptions failed responds with success and has
\* persisted exactly one Analysis; no failed call is in the timeline, and
\* metadata.totalCalls is the number of calls that were transcribed.
C8_CallFailuresAreNotFatal ==
    (ar.pc = "done" /\ ar.includeCalls /\ ar.error \notin FatalSteps) =>
        /\ ar.status = 200
        /\ ar.inserts = 1
        /\ \A i \in CallsWith(ar, {"downloadFailed", "transcribeFailed"}) :
               \A k \in 1..Len(ar.allMessages) : ar.allMessages[k].mid # i
        /\ \E row \in analyses :
               /\ row.id = Cardinality(analyses)
               /\ row.contact_id = ar.contactId
               /\ row.totalCalls = Cardinality(CallsWith(ar, {"ok"}))
               /\ \A other \in analyses : other.id = row.id => other = row

\* C8 witness: a run over two calls has ended, one transcribed and one not.
C8_Witness ==
    /\ ar.pc = "done" /\ ar.includeCalls /\ ar.status = 200
    /\ CallsWith(ar, {"ok"}) # {}
    /\ CallsWith(ar, {"downloadFailed", "transcribeFailed"}) # {}

\* C9: a failure of the contact fetch, of the conversation search, of a
\* message fetch or of the model invocation ends the request with 500, and
\* the request has inserted no Analysis.
C9_UpstreamFailureIsFatal ==
    [][(\/ AnalyzeFetchContact(FALSE)
        \/ AnalyzeFetchConversations(FALSE)
        \/ AnalyzeFetchMessages(FALSE)
        \/ AnalyzeInvokeModel(FALSE)) =>
          /\ ar'.pc = "done" /\ ar'.status = 500
          /\ ar'.inserts = 0
          /\ analyses' = analyses]_vars

\* C9 witness: the message fetch of the second conversation failed after a
\* call of the first one was transcribed (upstream calls: contact, search,
\* messages, recording, messages).
C9_Witness ==
    /\ ar.pc = "done" /\ ar.status = 500 /\ ar.error = "messageFetch"
    /\ ar.stt = 1 /\ ar.crm = 5

\* the prompt query of a request finds no row
Unresolvable(store, promptId, promptType) ==
    IF promptId # 0 THEN ~\E r \in store : r.id = promptId
    ELSE ~\E r \in store : r.is_active /\ r.prompt_type = promptType

\* C10: a request with a contactId whose prompt cannot be resolved is
\* answered 400 with an error that names the requested prompt type, after
\* no upstream call and no insert.
C10_NoPromptIs400 ==
    [][(/\ ar.pc = "idle" /\ ar'.pc # "idle"
        /\ ar'.contactId # ""
        /\ Unresolvable(prompts, ar'.promptId, ar'.promptType)) =>
          /\ ar'.pc = "done" /\ ar'.status = 400
          /\ ar'.error = "noActivePrompt" /\ ar'.errorType = ar'.promptType
          /\ ar'.crm = 0 /\ ar'.stt = 0 /\ ar'.llm = 0 /\ ar'.inserts = 0
          /\ analyses' = analyses]_vars

\* C10 witness: no promptId was given and the only active prompt is of the
\* other type.
C10_Witness ==
    /\ ar.pc = "done" /\ ar.status = 400 /\ ar.error = "noActivePrompt"
    /\ ar.promptId = 0
    /\ \E r \in prompts : r.is_active /\ r.prompt_type # ar.promptType

\* C10 witness: the promptId given matches no prompt.
C10_WitnessUnknownId ==
    /\ ar.pc = "done" /\ ar.status = 400 /\ ar.error = "noActivePrompt"
    /\ ar.promptId # 0

\* the Analysis a finished run has stored
StoredRows(r) == {row \in analyses : row.id = Cardinality(analyses)}

\* C11: in a run with includeCalls false the timeline never holds a CALL
\* entry, nothing is transcribed, and the stored metadata.totalCalls is 0.
C11_NoCallsWhenExcluded ==
    (ar.pc # "idle" /\ ~ar.includeCalls) =>
        /\ \A k \in 1..Len(ar.allMessages) : ar.allMessages[k].type # "CALL"
        /\ ar.transcriptions = <<>>
        /\ ar.stt = 0
        /\ (ar.pc = "done" /\ ar.status = 200) =>
               \A row \in StoredRows(ar) : row.totalCalls = 0 /\ row.transcriptions = <<>>

\* C11 witness: a run with includeCalls false that fetched a call message has
\* stored its Analysis.
C11_Witness ==
    /\ ar.pc = "done" /\ ar.status = 200 /\ ~ar.includeCalls
    /\ \E i \in 1..Len(ar.fetched) : ar.fetched[i].type = "TYPE_CALL"
    /\ Len(ar.allMessages) >= 1

\* the message the loop body has just handled, on a step of the message loop
Handled(r) == r.fetched[Len(r.fetched)]
IsMessageStep == ar.pc = "timeline" /\ ar'.pc = "timeline" /\ Len(ar'.fetched) = Len(ar.fetched) + 1

Included(r) ==
    {i \in 1..Len(r.fetched) :
        \/ r.fetched[i].type = "TYPE_SMS" /\ r.includeSMS
        \/ r.fetched[i].type \in {"TYPE_WHATSAPP", ""} /\ r.includeWhatsApp
        \/ r.fetched[i].type = "TYPE_CALL" /\ r.includeCalls /\ r.fetched[i].outcome = "ok"}

\* C14: the Analysis of a successful run has totalMessages = number of
\* timeline entries = included SMS and WhatsApp messages plus transcribed
\* calls, and totalCalls = number of transcribed calls; one SMS and one
\* transcribed call give 2 and 1.
C14_MetadataCounts ==
    (ar.pc = "done" /\ ar.status = 200) =>
        /\ StoredRows(ar) # {}
        /\ \A row \in StoredRows(ar) :
              /\ row.totalMessages = Len(ar.allMessages)
              /\ row.totalMessages = Cardinality(Included(ar))
              /\ row.totalCalls = Cardinality(CallsWith(ar, {"ok"}) \cap Included(ar))
              /\ ({ar.fetched[i].type : i \in 1..Len(ar.fetched)} = {"TYPE_SMS", "TYPE_CALL"}
                    /\ Len(ar.fetched) = 2 /\ Cardinality(Included(ar)) = 2) =>
                     row.totalMessages = 2 /\ row.totalCalls = 1

\* C14 witness: a run over one SMS and one transcribed call has stored its
\* Analysis.
C14_Witness ==
    /\ ar.pc = "done" /\ ar.status = 200
    /\ Len(ar.fetched) = 2 /\ Cardinality(Included(ar)) = 2
    /\ {ar.fetched[i].type : i \in 1..Len(ar.fetched)} = {"TYPE_SMS", "TYPE_CALL"}

\* C13: the timeline given to the model holds the included messages of all
\* conversations in ascending timestamp order, entries of equal timestamp
\* in the order they were met (mid is the position in the fetch order).
C13_TimelineSortedStable ==
    (ar.pc = "persist" \/ (ar.pc = "done" /\ ar.status = 200)) =>
        /\ \A i, j \in 1..Len(ar.allMessages) :
              i < j => \/ ar.allMessages[i].date < ar.allMessages[j].date
                       \/ /\ ar.allMessages[i].date = ar.allMessages[j].date
                          /\ ar.allMessages[i].mid < ar.allMessages[j].mid
        /\ {ar.allMessages[k].mid : k \in 1..Len(ar.allMessages)} = Included(ar)
        /\ \A k \in 1..Len(ar.allMessages) :
              ar.allMessages[k].date = ar.fetched[ar.allMessages[k].mid].date

\* C13 witness: a later message was fetched before an earlier one and the
\* model was invoked.
C13_Witness ==
    /\ ar.pc = "persist"
    /\ Len(ar.allMessages) = 2
    /\ ar.allMessages[1].mid = 2 /\ ar.allMessages[2].mid = 1

\* C13 witness: two messages of one timestamp reached the model.
C13_WitnessTie ==
    /\ ar.pc = "persist"
    /\ Len(ar.allMessages) = 2
    /\ ar.allMessages[1].date = ar.allMessages[2].date

\* C15: the response to a failed insert of the analysis differs, in status or
\* in error kind, from the response to every failed CRM or model call
C15_PersistFailureIsDistinct ==
    (ar.pc = "done" /\ ar.error = "store" /\ ar.llm = 1) =>
        \A kind \in {"contactFetch", "conversationSearch", "messageFetch", "model"} :
            Envelope(ar) # Envelope(Failed(ar, kind))

\* the row a finished request stored
SavedRows(r) == {row \in analyses : row.id = r.saved /\ row.contact_id = r.contactId}

\* both requests have answered, neither for want of a prompt
BothAnswered ==
    /\ ar.pc = "done" /\ ar2.pc = "done"
    /\ ar.error # "noActivePrompt" /\ ar2.error # "noActivePrompt"

\* C16: two interleaved analyze-contact requests for one contact, no call
\* failing, both answer 200 and each has stored a row of its own
C16_ConcurrentAnalysesBothStored ==
    BothAnswered =>
        /\ ar.status = 200 /\ ar2.status = 200
        /\ ar.saved # ar2.saved
        /\ SavedRows(ar) # {} /\ SavedRows(ar2) # {}
        /\ \A row \in SavedRows(ar) : row.totalMessages = Len(ar.allMessages)
        /\ \A row \in SavedRows(ar2) : row.totalMessages = Len(ar2.allMessages)
        /\ Cardinality({row \in analyses : row.contact_id = "c1"}) >= 2

\* both have answered, the one that inserted first has read more messages
C16_Witness ==
    /\ BothAnswered
    /\ ar.saved = 1 /\ ar2.saved = 2
    /\ Len(ar.allMessages) > Len(ar2.allMessages)

\* C17: a step never removes or changes a stored analysis; a step that adds
\* to the table is the insert of a run that answers 200, and adds one row
C17_AnalysesOnlyGrow ==
    [][/\ analyses \subseteq analyses'
       /\ analyses' # analyses =>
            /\ Cardinality(analyses' \ analyses) = 1
            /\ ar.pc = "persist" /\ ar'.pc = "done" /\ ar'.status = 200
            /\ ar'.inserts = ar.inserts + 1
            /\ ar'.originalUrl \in {"analyze-contact", "reanalyze"}]_vars

\* a second run has stored its row, after a run that failed at the insert
\* or after reads of the table
C17_Witness ==
    /\ Cardinality(analyses) = 2
    /\ ar.pc = "done" /\ ar.status = 200 /\ ar.saved = 2
    /\ view.op = "history" /\ view.status = 200

\* the newest of a set of rows
Newest(rows) == {r \in rows : \A q \in rows : q.created_at <= r.created_at}

\* C18: the history holds all and only the rows of the contact, newest first;
\* latest is the newest of them, the head of the history, or null
C18_HistoryAndLatest ==
    [][(view' # view /\ view'.status = 200) =>
         LET mine == RowsOfContact(analyses, view'.contactId)
             h == view'.analyses
         IN /\ analyses' = analyses
            /\ view'.op = "history" =>
                 /\ Range(h) = mine
                 /\ Len(h) = Cardinality(mine)
                 /\ \A i, j \in 1..Len(h) : i < j => h[i].created_at > h[j].created_at
            /\ view'.op = "latest" =>
                 /\ view'.latest = Newest(mine)
                 /\ mine = {} <=> view'.latest = {}
                 /\ mine # {} => view'.latest = {OrderByCreatedDesc(mine)[1]}]_vars

\* a history of two rows
C18_Witness ==
    /\ view.op = "history" /\ view.status = 200
    /\ Len(view.analyses) = 2

\* the latest of a contact with two rows
C18_WitnessLatest ==
    /\ view.op = "latest" /\ view.status = 200
    /\ view.latest # {}
    /\ Cardinality(RowsOfContact(analyses, view.contactId)) = 2

\* the history, and the latest, of a contact without rows while the other has one
C18_WitnessOtherContact ==
    /\ view.status = 200 /\ view.op # "none"
    /\ view.analyses = <<>> /\ view.latest = {}
    /\ analyses # {}

C19_WitnessNoPrompt ==
    /\ ar.pc = "done" /\ ar.status = 400 /\ ar.originalUrl = "reanalyze"

\* the smaller of two integers
Min(a, b) == IF a < b THEN a ELSE b

\* C20: a successful answer of GET /api/opportunities with at least one
\* pipeline, to a request whose limit is a number, lists min(limit, total)
\* opportunities: no more than limit, no more than total
C20_ReturnedIsMinLimitTotal ==
    (opp.pc = "done" /\ opp.status = 200 /\ opp.pipelines >= 1 /\ ~ParseInt(opp.limit).nan) =>
        /\ Len(opp.enrichedOpportunities) = Min(ParseInt(opp.limit).n, opp.total)
        /\ Len(opp.enrichedOpportunities) <= ParseInt(opp.limit).n
        /\ Len(opp.enrichedOpportunities) <= opp.total

\* the entries of the response
Entries(o) == {o.enrichedOpportunities[k] : k \in 1..Len(o.enrichedOpportunities)}

\* C21: every opportunity of a successful response carries the pipelineId
\* and the stage the request filtered on, from the search or the fallback
C21_ResponseMatchesFilters ==
    (opp.pc = "done" /\ opp.status = 200) =>
        \A e \in Entries(opp) :
            /\ Given(opp.pipelineId) => e.pipelineId = opp.pipelineId
            /\ Given(opp.pipelineStageId) => e.pipelineStageId = opp.pipelineStageId

\* C22: after a failed search call every pipeline is fetched in turn; a
\* failed fetch adds nothing and the loop goes on, a fetch that answers adds
\* its opportunities under the id of the pipeline; the request ends with 200
C22_FallbackSkipsOnlyFailed ==
    [][/\ (opp.pc = "search" /\ opp'.pc = "fallback") =>
             /\ opp'.allOpportunities = <<>>
             /\ opp'.fetchedPipelines = 0
       /\ (opp.pc = "fallback" /\ opp' # opp) =>
             LET k == opp.fetchedPipelines + 1
                 old == opp.allOpportunities
                 new == opp'.allOpportunities
             IN /\ opp'.fetchedPipelines = k
                /\ opp'.pc \in (IF k < opp.pipelines THEN {"fallback"} ELSE {"enrich", "done"})
                /\ opp'.pc = "done" => opp'.status = 200
                /\ Len(new) >= Len(old) /\ SubSeq(new, 1, Len(old)) = old
                /\ \A j \in Len(old) + 1 .. Len(new) : new[j].pipelineId = PipelineId(k)
                /\ k \in opp'.pipelineErrors => new = old
       /\ (opp'.pc = "done" /\ opp'.fetchedPipelines >= 1) =>
             /\ opp'.status = 200
             /\ opp'.fetchedPipelines = opp'.pipelines
             /\ opp'.total = Len(opp'.allOpportunities)]_vars

\* the second search call failed, the first pipeline failed, the second
\* gave an opportunity, and the request succeeded
C22_Witness ==
    /\ opp.pc = "done" /\ opp.status = 200
    /\ opp.searches = 2
    /\ opp.pipelineErrors = {1} /\ opp.fetchedPipelines = 2
    /\ Len(opp.enrichedOpportunities) = 1

\* the embedded contact lacks an email or a phone and the opportunity
\* carries a contact id
NeedsFetch(x) == x.contact # "full" /\ x.contactId # ""

\* the truncated opportunities whose enrichment has started
StartedOpps(o) == {o.limitedOpps[k] : k \in {j \in 1..Len(o.limitedOpps) :
                                                o.limitedOpps[j].id \in o.started}}

\* C23: a contact-detail call is issued for exactly the opportunities under
\* enrichment whose embedded contact is incomplete and that carry a contact
\* id; at the response every truncated opportunity has been through it
C23_ContactFetchedIffNeeded ==
    /\ opp.contactFetched = {x.id : x \in {y \in StartedOpps(opp) : NeedsFetch(y)}}
    /\ (opp.pc = "done" /\ opp.status = 200) =>
          opp.started = {opp.limitedOpps[k].id : k \in 1..Len(opp.limitedOpps)}

\* four opportunities enriched, the first with a complete embedded contact
\* and no call, the last with a call
C23_Witness ==
    /\ opp.pc = "done" /\ opp.status = 200
    /\ Len(opp.limitedOpps) = batchSize + 1
    /\ opp.limitedOpps[1].contact = "full"
    /\ opp.contactFetched = {2, 4}

\* C24: the response has one entry per truncated opportunity, in order; the
\* entry is the stub (contact 'Unknown', hasAnalysis false) exactly when the
\* opportunity had no contact id to fetch or its contact fetch failed, and
\* every other entry is enriched
C24_FailedEnrichmentIsStub ==
    (opp.pc = "done" /\ opp.status = 200) =>
        /\ Len(opp.enrichedOpportunities) = Len(opp.limitedOpps)
        /\ \A k \in 1..Len(opp.limitedOpps) :
              LET x == opp.limitedOpps[k]
                  e == opp.enrichedOpportunities[k]
              IN /\ e.id = x.id
                 /\ e.failed <=> /\ x.contact # "full"
                                 /\ x.contactId = "" \/ x.id \in opp.contactFailed
                 /\ e.failed => e.contactName = "Unknown" /\ ~e.hasAnalysis
                 /\ ~e.failed => e.contactName = "name" /\ e.pipelineStageId = x.pipelineStageId

\* the contact fetch of the second of four opportunities failed, the third
\* has no contact id; the first and the fourth, of the next batch, are enriched
C24_Witness ==
    /\ opp.pc = "done" /\ opp.status = 200
    /\ Len(opp.enrichedOpportunities) = batchSize + 1
    /\ opp.contactFailed = {2}
    /\ opp.limitedOpps[3].contactId = ""
    /\ ~opp.enrichedOpportunities[1].failed
    /\ opp.enrichedOpportunities[2].failed
    /\ opp.enrichedOpportunities[3].failed
    /\ ~opp.enrichedOpportunities[batchSize + 1].failed
    /\ opp.limitedOpps[batchSize + 1].contact = "partial"

\* the enrichment tasks that have not finished
TasksInFlight(o) == {k \in 1..Len(o.batch) : o.batch[k].pc # "done"}

\* C25: at most batchSize enrichment tasks are in flight; the tasks started
\* are those of the batches up to the current one, and while a batch runs the
\* results of all earlier batches have been collected
C25_BatchesOfThree ==
    /\ Cardinality(TasksInFlight(opp)) <= batchSize
    /\ Len(opp.batch) <= batchSize
    /\ opp.batch # <<>> =>
          /\ Len(opp.enrichedOpportunities) = opp.i
          /\ opp.started = {opp.limitedOpps[k].id : k \in 1..opp.i + Len(opp.batch)}
    /\ \A k \in 1..Len(opp.limitedOpps) :
          k > Len(opp.enrichedOpportunities) + batchSize => opp.limitedOpps[k].id \notin opp.started

\* three tasks in flight while a fourth opportunity waits
C25_Witness ==
    /\ opp.pc = "enrich"
    /\ Cardinality(TasksInFlight(opp)) = batchSize
    /\ Len(opp.limitedOpps) = batchSize + 1
    /\ opp.limitedOpps[batchSize + 1].id \notin opp.started

\* the second batch runs after the first has finished
C25_WitnessSecondBatch ==
    /\ opp.pc = "enrich"
    /\ opp.i = batchSize
    /\ TasksInFlight(opp) # {}

\* the results of the enrichments that have finished
Finished(o) ==
    Entries(o) \cup {o.batch[k].result : k \in {j \in 1..Len(o.batch) : o.batch[j].pc = "done"}}

\* the contact id of the truncated opportunity of the given id
ContactOf(o, id) ==
    LET k == CHOOSE j \in 1..Len(o.limitedOpps) : o.limitedOpps[j].id = id
    IN o.limitedOpps[k].contactId

\* C26: when the enrichment of an opportunity finishes without failing, its
\* hasAnalysis says whether the store holds an analysis of its contact at
\* that moment
C26_HasAnalysisIffStored ==
    [][\A e \in Finished(opp') \ Finished(opp) :
          ~e.failed =>
             (e.hasAnalysis <=> RowsOfContact(analyses, ContactOf(opp', e.id)) # {})]_vars

\* an opportunity is returned with hasAnalysis true
C26_WitnessFound ==
    /\ opp.pc = "done" /\ opp.status = 200
    /\ \E e \in Entries(opp) : e.hasAnalysis

\* the run over the same messages in which no call stage ran for the calls
\* that failed: they are messages the classifier drops
WithoutFailedCalls(r) ==
    [r EXCEPT !.fetched =
        [k \in 1..Len(r.fetched) |->
            IF k \in CallsWith(r, {"downloadFailed", "transcribeFailed"})
            THEN [r.fetched[k] EXCEPT !.type = "TYPE_EMAIL", !.outcome = "none"]
            ELSE r.fetched[k]]]

\* C27: a run in which the download or the transcription of a call failed
\* shows it: its response and stored metadata differ from those of the run
\* in which no call failed
C27_StageFailureIsObservable ==
    (ar.pc = "done" /\ CallsWith(ar, {"downloadFailed", "transcribeFailed"}) # {}) =>
        Visible(ar) # Visible(WithoutFailedCalls(ar))

\* C28: a request for the history or for the active prompt, in either
\* revision, leaves the stored prompts, their order, versions and active
\* flags as they were
C28_PromptReadsArePure ==
    [][(\/ MemHistory
        \/ MemActive
        \/ \E t \in PromptTypes \cup {""}, ok \in BOOLEAN : PromptHistory(t, ok)
        \/ \E t \in PromptTypes, ok \in BOOLEAN : PromptActive(t, ok))
       => (promptsStorage' = promptsStorage /\ prompts' = prompts)]_vars

\* the headings of the two sections of the context block
Sections == {"contactInfo", "history"}

\* the positions of the model input that hold x
Positions(input, x) == {k \in 1..Len(input) : input[k] = x}

\* C29: the input of the model call is the prompt content, then the context
\* block: the contact section iff settings.includeContactInfo, the history
\* section iff the timeline is not empty, the contact section first, and
\* the separator only between two sections; the call is the only one
C29_ContextBlock ==
    ar.pc = "persist" =>
        LET prompt == CHOOSE r \in ar.prompt : TRUE
            input == ar.input
            block == SubSeq(input, 3, Len(input))
        IN /\ ar.llm = 1
           /\ Len(input) >= 2 /\ input[1] = "promptContent" /\ input[2] = "blankLine"
           /\ Positions(block, "promptContent") = {}
           /\ Cardinality(Positions(block, "contactInfo")) =
                 (IF prompt.settings.includeContactInfo THEN 1 ELSE 0)
           /\ Cardinality(Positions(block, "history")) =
                 (IF Len(ar.allMessages) > 0 THEN 1 ELSE 0)
           /\ \A i \in Positions(block, "contactInfo"), j \in Positions(block, "history") :
                 i < j
           /\ \A k \in Positions(block, "separator") :
                 /\ 1 < k /\ k < Len(block)
                 /\ block[k - 1] \in Sections /\ block[k + 1] \in Sections
           /\ \A k \in 1..Len(block) - 1 :
                 block[k] \in Sections => block[k + 1] = "separator"

\* C29: the model was asked with both sections in the block
C29_Witness ==
    /\ ar.pc = "persist"
    /\ ar.input = <<"promptContent", "blankLine", "contactInfo", "separator", "history">>

\* C29: the model was asked under a prompt without the contact section, the
\* timeline not empty
C29_WitnessNoContact ==
    /\ ar.pc = "persist"
    /\ ar.input = <<"promptContent", "blankLine", "history">>

\* C29: the model was asked with an empty context block
C29_WitnessEmpty ==
    /\ ar.pc = "persist"
    /\ ar.input = <<"promptContent", "blankLine">>

\* the place of a position of analyze-contact in the order of its stages
Rank(pc) ==
    CASE pc = "idle" -> 0
      [] pc = "fetchContact" -> 1
      [] pc = "fetchConversations" -> 2
      [] pc = "timeline" -> 3
      [] pc = "persist" -> 4
      [] pc = "done" -> 5

\* C30: a run of analyze-contact never goes back to an earlier stage and
\* enters each stage from the one before it; once the model is invoked no
\* message is fetched or processed, the analysis is written only from the
\* stage the successful model call leads to, and the request answers 200
\* only with the write
C30_StagesInOrder ==
    [][/\ ar'.pc # "idle" => Rank(ar'.pc) >= Rank(ar.pc)
       /\ ar'.pc = "idle" => ar.pc \in {"idle", "done"}
       /\ (ar'.pc # ar.pc /\ ar'.pc # "done") => Rank(ar'.pc) = (Rank(ar.pc) + 1) % 6
       /\ ar'.llm > ar.llm =>
             /\ ar.pc = "timeline" /\ ar.llm = 0
             /\ ar.crm >= 2 + ar.nConvs
       /\ (ar.llm >= 1 /\ ar'.pc # "idle") =>
             /\ Len(ar'.fetched) <= Len(ar.fetched)
             /\ ar'.nConvs <= ar.nConvs
             /\ ar'.llm = ar.llm
       /\ (ar'.inserts > ar.inserts \/ analyses' # analyses) =>
             /\ ar.pc = "persist" /\ ar.llm = 1 /\ ar.inserts = 0
       /\ (ar'.status = 200 /\ ar.status # 200) =>
             /\ ar.pc = "persist" /\ ar'.pc = "done"
             /\ ar'.inserts = ar.inserts + 1
             /\ \E row \in analyses' \ analyses : row.id = ar'.saved
      ]_vars

\* C30: a run went through every stage, over a message, and answered 200
C30_Witness ==
    /\ ar.pc = "done" /\ ar.status = 200
    /\ ar.nConvs >= 1 /\ Len(ar.fetched) >= 1
    /\ ar.llm = 1 /\ ar.inserts = 1

\* the calls a request has made: CRM, transcription, model, analyses insert
Calls(r) == r.crm + r.stt + r.llm + r.inserts

\* the messages fetched that the loop took as calls
CallsFetched(r) ==
    {i \in 1..Len(r.fetched) :
        Classify(r.fetched[i].type, r.includeCalls, r.includeSMS, r.includeWhatsApp) = "CALL"}

\* every call of the run so far was made once: one contact fetch, one
\* conversation search, one message fetch per conversation, one recording
\* download per call, one transcription per downloaded recording, one model
\* call, one insert
CalledOnce(r) ==
    /\ r.crm = (IF Rank(r.pc) >= 2 THEN 1 ELSE 0) + (IF Rank(r.pc) >= 3 THEN 1 ELSE 0)
                + r.nConvs + Cardinality(CallsFetched(r))
    /\ r.stt = Cardinality({i \in CallsFetched(r) : r.fetched[i].outcome # "downloadFailed"})
    /\ r.llm = (IF Rank(r.pc) >= 4 THEN 1 ELSE 0)
    /\ r.inserts = (IF Rank(r.pc) >= 5 THEN 1 ELSE 0)

\* C31: a request invokes the model at most once and attempts at most one
\* insert; while it runs every call was made once, the step that fails makes
\* one call and answers 500, and a request that has answered makes no call
C31_NoRetry ==
    [][/\ ar'.llm <= 1 /\ ar'.inserts <= 1
       /\ (ar'.pc \in {"fetchContact", "fetchConversations", "timeline", "persist"}
             \/ ar'.status = 200) => CalledOnce(ar')
       /\ (ar'.status = 500 /\ ar.status # 500) =>
             /\ ar'.pc = "done"
             /\ Calls(ar') = Calls(ar) + 1
       /\ (ar.pc = "done" /\ ar'.pc # "idle") => Calls(ar') = Calls(ar)
      ]_vars

\* C31: the model call failed after calls were transcribed, and the request
\* answered 500 with one model call and no insert
C31_Witness ==
    /\ ar.pc = "done" /\ ar.status = 500 /\ ar.error = "model"
    /\ ar.llm = 1 /\ ar.inserts = 0 /\ ar.stt >= 1

\* C31: the insert failed, and the request answered 500 with one insert
C31_WitnessInsert ==
    /\ ar.pc = "done" /\ ar.status = 500 /\ ar.error = "store"
    /\ ar.llm = 1 /\ ar.inserts = 1

\* the request has answered with one of the terminal outcomes
Answered(r) ==
    /\ r.pc = "done"
    /\ r.status \in {200, 400, 500}
    /\ Envelope(r).success = (r.status = 200)

\* C32: every request that has arrived answers in the end, with 200 and
\* success or with 400 or 500 and no success; it answers once: before the
\* answer it has no status, and after it the handler only returns
C32_EveryRequestAnswers ==
    /\ (ar.pc # "idle") ~> Answered(ar)
    /\ [](ar.pc \notin {"idle", "done"} => ar.status = 0)
    /\ [][ar.pc = "done" => (Answered(ar) /\ ar' = IdleRequest)]_vars

\* C32: a request has answered 500 after a failed conversation search
C32_Witness ==
    /\ Answered(ar) /\ ar.status = 500 /\ ar.error = "conversationSearch"

\* C32: a request has answered 200
C32_WitnessDone ==
    /\ Answered(ar) /\ ar.status = 200 /\ Len(ar.fetched) >= 1

\* C32: a request has answered 400
C32_WitnessRejected ==
    /\ Answered(ar) /\ ar.status = 400

\* the accumulated opportunities of the pipeline the request asks for
InRequestedPipeline(o) ==
    LET InPipeline(x) == x.pipelineId = o.pipelineId
    IN SelectSeq(o.allOpportunities, InPipeline)

\* the paging loop has run and is about to request one more page
NextPageRequested(o) == o.pc = "search" /\ o.searches >= 1

\* C33: under a pipeline filter no further page is requested once the
\* accumulated opportunities of that pipeline are 2 x limit or more; without
\* one, the loop is left only after an empty page, at the last page or at
\* the cap
C33_EarlyExit ==
    /\ [](NextPageRequested(opp) /\ Given(opp.pipelineId) /\ ~ParseInt(opp.limit).nan
            => Len(InRequestedPipeline(opp)) < 2 * ParseInt(opp.limit).n)
    /\ [][(opp.pc = "search" /\ opp'.pc # "search" /\ ~Given(opp.pipelineId)) =>
            \/ Len(opp'.allOpportunities) = Len(opp.allOpportunities)
            \/ ~opp'.hasMore
            \/ Len(opp'.allOpportunities) >= MaxAccumulated]_vars

\* C33: under a pipeline filter the loop was left by the early exit: a next
\* page was there and the cap not reached
C33_Witness ==
    /\ opp.pc = "done" /\ opp.status = 200
    /\ Given(opp.pipelineId)
    /\ opp.hasMore /\ opp.searches = 1
    /\ opp.total >= 1 /\ opp.total < MaxAccumulated

\* C33: without a pipeline filter a second page was requested though the
\* accumulated opportunities were 2 x limit or more
C33_WitnessNoFilter ==
    /\ NextPageRequested(opp) /\ ~Given(opp.pipelineId)
    /\ ~ParseInt(opp.limit).nan
    /\ Len(opp.allOpportunities) >= 2 * ParseInt(opp.limit).n

\* C34: the paging loop ends whatever the upstream answers: a pass that
\* stays in the loop adds an opportunity, no page is requested at the cap,
\* so the passes are no more than the opportunities accumulated, and the
\* handler leaves the loop in the end
C34_PagingTerminates ==
    /\ (opp.pc = "search") ~> (opp.pc # "search")
    /\ [](opp.pc = "search" =>
            /\ Len(opp.allOpportunities) < MaxAccumulated
            /\ opp.searches <= Len(opp.allOpportunities))
    /\ [][(opp.pc = "search" /\ opp'.pc = "search") =>
            Len(opp'.allOpportunities) > Len(opp.allOpportunities)]_vars

\* C34: the upstream named the first URL as the next page of the second, a
\* cycle, and the loop was left at the cap
C34_Witness ==
    /\ opp.pc = "done" /\ opp.status = 200
    /\ opp.hasMore /\ opp.nextPageUrl = "search" /\ opp.searches >= 2
    /\ Len(opp.allOpportunities) >= MaxAccumulated

\* C35: with the requests run one at a time from the empty store, every
\* type that has a stored prompt has exactly one active prompt
C35_ExactlyOneActivePerStoredType ==
    \A t \in PromptTypes :
        OfType(prompts, t) # {} => Cardinality(ActiveIds(prompts, t)) = 1

\* C35: the active prompt of a type was deleted, prompts of the type are
\* left and one of them is active
C35_Witness ==
    /\ Done(resp, "delete") /\ resp.wasActive
    /\ OfType(prompts, resp.type) # {}
    /\ Cardinality(ActiveIds(prompts, resp.type)) = 1

\* C35: a prompt that was not active was restored and is the one active
\* prompt of its type
C35_WitnessRestore ==
    /\ Done(resp, "restore") /\ ~resp.wasActive
    /\ ActiveIds(prompts, resp.type) = {resp.id}
    /\ Cardinality(OfType(prompts, resp.type)) >= 2

\* C36: the prompts that interleaved POST /api/prompts requests create have
\* distinct versions: no two stored prompts of a type share a version
C36_ConcurrentCreatesDistinctVersions ==
    \A r \in prompts, q \in prompts :
        (r.id # q.id /\ r.prompt_type = q.prompt_type) => r.version # q.version

\* C37: once the delete of the active prompt of a type and the create or
\* restore for that type it ran with have both answered 200, at most one
\* prompt of the type is active
C37_ConcurrentDeleteOneActive ==
    (/\ pp[1].pc = "idle" /\ pp[1].status = 200
     /\ pp[2].pc = "idle" /\ pp[2].status = 200)
        => \A t \in PromptTypes : Cardinality(ActiveIds(prompts, t)) <= 1

\* C38: in the single-sequence revision a restore whose id matches no
\* stored prompt leaves the store as it was
C38_FailedRestoreLeavesStore ==
    [][\A id \in Ids :
          (SingleRestorePrompt(id) /\ RowsWithId(prompts, id) = {}) => prompts' = prompts]_vars

\* C39: in the in-memory revision any two stored prompts have distinct ids
\* and any two stored analyses have distinct ids
C39_ClockIdsAreDistinct ==
    /\ \A i \in 1..Len(promptsStorage), j \in 1..Len(promptsStorage) :
          i # j => promptsStorage[i].id # promptsStorage[j].id
    /\ \A i \in 1..Len(analysesStorage), j \in 1..Len(analysesStorage) :
          i # j => analysesStorage[i].id # analysesStorage[j].id

\* C40: the prompt of a run is the stored row of the given id, or without
\* an id the active row of the requested type, as stored when the run
\* selects it; the run keeps it to its end, and the analysis it stores has
\* the id, version and type of that row: the type of the prompt of the id
\* and not the requested one, and the prompt selected even when another is
\* active by then
C40_AnalysisRecordsResolvedPrompt ==
    [][/\ (ar.pc = "idle" /\ ar'.pc = "fetchContact") =>
             \E r \in prompts :
                 /\ ar'.prompt = {r}
                 /\ IF ar'.promptId # 0 THEN r.id = ar'.promptId
                    ELSE r.is_active /\ r.prompt_type = ar'.promptType
       /\ (ar.pc \notin {"idle", "done"} /\ ar'.status \in {0, 200}) => ar'.prompt = ar.prompt
       /\ \A row \in analyses' \ analyses :
             \E r \in ar.prompt :
                 /\ row.prompt_id = r.id
                 /\ row.prompt_version = r.version
                 /\ row.prompt_type = r.prompt_type
                 /\ ar.promptId # 0 => row.prompt_id = ar.promptId
                 /\ ar.promptId = 0 => row.prompt_type = ar.promptType
      ]_vars

\* C40: an analysis was stored by a run given a prompt id and another type
\* than that of its prompt
C40_Witness ==
    /\ ar.pc = "done" /\ ar.status = 200 /\ ar.promptId # 0
    /\ \E row \in SavedRows(ar) :
          /\ row.prompt_id = ar.promptId
          /\ row.prompt_type # ar.promptType

\* C40: an analysis was stored by a run given no prompt id, and another
\* prompt of the type is the active one by then
C40_WitnessActivatedSince ==
    /\ ar.pc = "done" /\ ar.status = 200 /\ ar.promptId = 0
    /\ \E row \in SavedRows(ar) :
          /\ row.prompt_type = ar.promptType
          /\ row.prompt_id \notin ActiveIds(prompts, ar.promptType)
          /\ ActiveIds(prompts, ar.promptType) # {}

====
